---- MODULE Spec2Model ----
(***************************************************************************)
(* The Expiration Reminder Engine of rf11291/xf (app/reminders.py) over    *)
(* the catalog store (app/db.py), with the entry points of the chat bot    *)
(* (app/main.py) and the web admin (app/web.py) that call into it.         *)
(*                                                                         *)
(* Dates are day numbers.  The stored expires_at TEXT is a record          *)
(* [iso, day]: iso says whether date.fromisoformat accepts the text.       *)
(* The clock `now` advances in ticks; TicksPerDay ticks make one local     *)
(* calendar day, so two sends on one day can carry different sent_at.      *)
(***************************************************************************)
EXTENDS Integers, Sequences, FiniteSets, TLC

(* ------------------------------ bounds -------------------------------- *)
MaxNow == 2
TicksPerDay == 2
MaxExpiry == 32
MaxMails == 2
MaxRowId == 2


(* ------------------------------ identifiers --------------------------- *)
SubIds == {1, 2}
AnyId == SubIds \cup {3}
Procs == {1, 2}

(* ---------------------------- input domains --------------------------- *)
IsoDate(d) == [iso |-> TRUE, day |-> d]
BadDate == [iso |-> FALSE, day |-> 0]
InitExpiry == {IsoDate(-1), IsoDate(1), IsoDate(31), BadDate}
Address(c) == "c" \o ToString(c) \o "@example.com"
Blank == " "
JsonList(items) == [json |-> "list", items |-> items]
EmptyText == [json |-> "empty", items |-> <<>>]
\* no row for the key: get_setting returns None
Absent == [json |-> "absent", items |-> <<>>]
DEFAULT_TEMPLATE == [json |-> "object", items |-> <<"default_template">>]
DEFAULT_RENEWAL_CONFIRM_TEMPLATE == [json |-> "object", items |-> <<"default_renewal">>]
CustomTemplate == [json |-> "object", items |-> <<"custom">>]
Malformed == [json |-> "malformed", items |-> <<>>]
DEFAULT_RULES == <<30, 7, 1, 0>>
DefaultSettings ==
  [reminder_rules |-> JsonList(DEFAULT_RULES),
   email_template |-> DEFAULT_TEMPLATE,
   renewal_confirm_template |-> DEFAULT_RENEWAL_CONFIRM_TEMPLATE]
NoSettings ==
  [reminder_rules |-> Absent, email_template |-> Absent, renewal_confirm_template |-> Absent]
\* chat input for the rules: comma-separated pieces, numeric or not
Piece(n) == [int |-> TRUE, val |-> n]
Junk == [int |-> FALSE, val |-> 0]
ChatRuleTexts ==
  {<<Piece(30), Piece(7), Piece(1), Piece(0)>>, <<Piece(7), Piece(30), Piece(7)>>,
   <<Piece(5), Piece(-1)>>, <<Piece(7), Junk>>, <<>>}
TemplateDocs == {DEFAULT_TEMPLATE, CustomTemplate, EmptyText}
\* chat input for the template subject: any non-empty text
ChatSubjects == {"custom", "promo"}
RuleDocs == {JsonList(DEFAULT_RULES), JsonList(<<>>), EmptyText, Malformed}
None == <<>>
Some(t) == <<t>>
ManualThresholds == {0, 60}
ChatRenewDays == {30}
WebRenewDays == {30}
EmailTexts == {"a@x.io", " A@X.IO ", "b@x.io", Blank}
ProductNames == {"basic", " basic ", "pro"}
StoreProductNames == {"basic", "pro"}
StoreExpiry == {IsoDate(1), BadDate}
RowIds == 1..MaxRowId
\* SQL NULL in a TEXT column, the empty text, and two descriptions
NULL == "<null>"
Contents == {NULL, "", "d1", "d2"}
LegacyRow(id, customer_id, name, content) ==
  [id |-> id, customer_id |-> customer_id, name |-> name, content |-> content,
   expires_at |-> IsoDate(1)]
\* a table of the file: absent, or present with its rows
NoTable == [exists |-> FALSE, rows |-> {}]
Table(rows) == [exists |-> TRUE, rows |-> rows]
\* legacy products tables (customer 1 exists, customer 2 does not)
LegacyTables ==
  {Table({LegacyRow(1, 1, "basic", NULL)}),
   Table({LegacyRow(3, 1, "basic", "d2"), LegacyRow(1, 1, " basic ", "d1")}),
   Table({LegacyRow(1, 1, "basic", "d1"), LegacyRow(3, 2, "pro", NULL)})}
\* legacy per-threshold rows, keyed by (product_id, days_before); no legacy
\* product has id 2
LegacySend(product_id, days_before, sent_at) ==
  [product_id |-> product_id, days_before |-> days_before, sent_at |-> sent_at]
LegacySends == {Table({LegacySend(1, 7, 0), LegacySend(3, 7, 1), LegacySend(2, 7, 0)})}

VARIABLES
  customers,            \* customers table: id -> [email]
  subscriptions,        \* subscriptions table: id -> [customer_id, product_id, expires_at, note]
  settings,             \* settings table: key -> stored document
  reminder_daily_sends, \* set of rows [subscription_id, sent_date, sent_at]
  products,             \* products table: id -> [name, content]
  reminder_sends,       \* per-threshold table: set of rows [subscription_id, days_before, sent_at]
  sqlite_sequence,      \* AUTOINCREMENT: table -> largest row id ever given out
  schema,               \* which tables the file holds: "fresh", "v3" (legacy) or "v4"
  v3_products,          \* the table named products while it has the legacy shape
  legacy_products,      \* the backup table legacy_products
  legacy_reminder_sends,\* the legacy per-threshold table (reminder_sends before its renaming)
  now,                  \* the clock, in ticks
  user_data,            \* the chat conversation: context.user_data (state and the values entered so far)
  ops,                  \* per task: the engine call in progress and where it is
  reminders,            \* history: reminder mails the transport accepted today, per subscription
  acked,                \* history: <<subscription, date>> of every transport call that returned
  failed,               \* history: subscriptions whose scan send raised today, not yet sent
  renewed,              \* history: subscriptions whose renewal confirmation the transport accepted today
  crashed               \* history: subscriptions whose accepted reminder of today lost its record to a crash

legacyVars == <<v3_products, legacy_products, legacy_reminder_sends>>
catalogVars == <<products, reminder_sends, sqlite_sequence, schema, legacyVars>>
storeVars == <<customers, subscriptions, settings, reminder_daily_sends, catalogVars>>
histVars == <<reminders, acked, failed, renewed, crashed>>
vars == <<storeVars, now, user_data, ops, histVars>>

(* --------------------- main.py: conversation state -------------------- *)
STATE_NONE == ""
STATE_ADD_CUST_NAME == "ADD_CUST_NAME"
STATE_ADD_CUST_EMAIL == "ADD_CUST_EMAIL"
STATE_ADD_CATALOG_NAME == "ADD_CATALOG_NAME"
STATE_ADD_CATALOG_CONTENT == "ADD_CATALOG_CONTENT"
STATE_ADD_SUB_PICK_CUST == "ADD_SUB_PICK_CUST"
STATE_ADD_SUB_PICK_PROD == "ADD_SUB_PICK_PROD"
STATE_ADD_SUB_EXPIRES == "ADD_SUB_EXPIRES"
STATE_ADD_SUB_NOTE == "ADD_SUB_NOTE"
STATE_EDIT_SUB_EXPIRES == "EDIT_SUB_EXPIRES"
STATE_SET_RULES == "SET_RULES"
STATE_SET_TPL_SUBJECT == "SET_TPL_SUBJECT"
STATE_SET_TPL_HTML == "SET_TPL_HTML"
STATE_EXP_CUSTOM_DAYS == "EXP_CUSTOM_DAYS"
STATE_SCAN_CUSTOM_DAYS == "SCAN_CUSTOM_DAYS"
\* user_data after clear(): no state and none of the keys (0 and "" stand
\* for a missing key, which the handlers test with `not`)
NoUserData ==
  [state |-> STATE_NONE, sub_customer_id |-> 0, sub_product_id |-> 0, sub_expires_at |-> "",
   edit_sub_id |-> 0, catalog_name |-> ""]
_get_state == user_data.state
_clear_state == NoUserData

(* ------------------------------ helpers ------------------------------- *)
Range(s) == {s[k] : k \in DOMAIN s}
Max(S) == CHOOSE x \in S : \A y \in S : x >= y
Min(S) == CHOOSE x \in S : \A y \in S : x <= y
DateOf(t) == t \div TicksPerDay
Today == DateOf(now)
strip(e) ==
  CASE e = Blank -> ""
    [] e = " A@X.IO " -> "A@X.IO"
    [] e = " basic " -> "basic"
    [] OTHER -> e
lower(e) == IF e = "A@X.IO" THEN "a@x.io" ELSE e
Without(f, gone) == [k \in DOMAIN f \ gone |-> f[k]]
With(f, id, row) == [k \in DOMAIN f \cup {id} |-> IF k = id THEN row ELSE f[k]]

SortedDesc(S) ==
  [k \in 1..Cardinality(S) |-> CHOOSE x \in S : Cardinality({y \in S : y > x}) = k - 1]

(* ------------------------------ db.py --------------------------------- *)
get_setting(key) == settings[key]
\* INSERT ... ON CONFLICT(key) DO UPDATE SET value
set_setting(table, key, value) == [table EXCEPT ![key] = value]

was_sent_on_never(table, subscription_id, sent_date) == FALSE
was_sent_on_any_date(table, subscription_id, sent_date) ==
  \E r \in table : r.subscription_id = subscription_id
was_sent_on(table, subscription_id, sent_date) ==
  \E r \in table : r.subscription_id = subscription_id /\ r.sent_date = sent_date

mark_sent_on_plain(table, subscription_id, sent_date, sent_at) ==
  table \cup {[subscription_id |-> subscription_id, sent_date |-> sent_date, sent_at |-> sent_at]}
mark_sent_on(table, subscription_id, sent_date, sent_at) ==
  IF \E r \in table : r.subscription_id = subscription_id /\ r.sent_date = sent_date
  THEN table
  ELSE table \cup {[subscription_id |-> subscription_id, sent_date |-> sent_date, sent_at |-> sent_at]}

\* the joined row of one subscription (JOIN customers, JOIN products)
DetailRow(id) ==
  [id |-> id,
   customer_id |-> subscriptions[id].customer_id,
   product_id |-> subscriptions[id].product_id,
   expires_at |-> subscriptions[id].expires_at,
   customer_email |-> customers[subscriptions[id].customer_id].email,
   product_name |-> products[subscriptions[id].product_id].name]

get_subscription_detail(id) ==
  IF id \in DOMAIN subscriptions THEN <<DetailRow(id)>> ELSE None

\* ORDER BY s.expires_at ASC compares the stored text: ISO dates by day, other text after them
TextLE(a, b) == IF a.iso /\ b.iso THEN a.day <= b.day ELSE ~b.iso

\* every order the query may return: sorted by expires_at, ties in any order
list_all_subscription_details ==
  LET ids == DOMAIN subscriptions
      n == Cardinality(ids)
  IN {[k \in 1..n |-> DetailRow(f[k])] :
        f \in {g \in [1..n -> ids] :
                 /\ \A a, b \in 1..n : a # b => g[a] # g[b]
                 /\ \A a, b \in 1..n : a < b =>
                      TextLE(subscriptions[g[a]].expires_at, subscriptions[g[b]].expires_at)}}

update_subscription_expires(id, new_expires_at) ==
  IF id \in DOMAIN subscriptions
  THEN [subscriptions EXCEPT ![id].expires_at = new_expires_at]
  ELSE subscriptions

(* ---------------------------- reminders.py ---------------------------- *)
_pick_rule_for_display_below(rules, days_left) ==
  IF rules = <<>> THEN Max({days_left, 0})
  ELSE LET dl == Max({days_left, 0})
           candidates == {r \in Range(rules) : r <= dl}
       IN IF candidates # {} THEN Max(candidates) ELSE Min(Range(rules))
_pick_rule_for_display(rules, days_left) ==
  IF rules = <<>> THEN Max({days_left, 0})
  ELSE LET dl == Max({days_left, 0})
           candidates == {r \in Range(rules) : r >= dl}
       IN IF candidates # {} THEN Min(candidates) ELSE Max(Range(rules))

\* `if rules_raw`: None and the empty text are both false
Falsy(raw) == raw.json \in {"empty", "absent"}
json_loads_ok(raw) == raw.json # "malformed"
LoadRules(rules_raw) ==
  SortedDesc(Range(IF Falsy(rules_raw) THEN DEFAULT_RULES ELSE rules_raw.items))

auto_threshold_min(rules) == IF rules # <<>> THEN Min(Range(rules)) ELSE 0
auto_threshold(rules) == IF rules # <<>> THEN Max(Range(rules)) ELSE 0

EffectiveThreshold(threshold_days, rules) ==
  IF threshold_days = None THEN auto_threshold(rules) ELSE threshold_days[1]
Mode(threshold_days) == IF threshold_days = None THEN "auto" ELSE "manual"

InWindow_no_floor(days_left, threshold_days) == days_left <= threshold_days
InWindow_strict(days_left, threshold_days) == ~(days_left < -1) /\ days_left < threshold_days
InWindow(days_left, threshold_days) == ~(days_left < -1) /\ ~(days_left > threshold_days)

AfterSend_always(table, ok, sub_id, today, at) == mark_sent_on(table, sub_id, today, at)
AfterSend(table, ok, sub_id, today, at) ==
  IF ok THEN mark_sent_on(table, sub_id, today, at) ELSE table

Idle == [kind |-> "idle"]
AllIdle == \A p \in Procs : ops[p].kind = "idle"
Cur(o) == o.subs[o.i]
Bump(n) == IF n < MaxMails THEN n + 1 ELSE n

(* The transport accepted a mail for subscription sid. *)
Delivered(sid, is_reminder) ==
  /\ reminders' = IF is_reminder THEN [reminders EXCEPT ![sid] = Bump(@)] ELSE reminders
  /\ acked' = acked \cup {<<sid, Today>>}
  /\ failed' = failed \ {sid}
  /\ renewed' = IF is_reminder THEN renewed ELSE renewed \cup {sid}
  /\ crashed' = crashed \ {sid}

ScanStart(p, threshold_days) ==
  /\ ops[p].kind = "idle"
  /\ LET rules_raw == get_setting("reminder_rules") IN
     IF ~json_loads_ok(rules_raw)
     THEN ops' = [ops EXCEPT ![p] = [kind |-> "scan", pc |-> "raised"]]
     ELSE \E subs \in list_all_subscription_details :
            LET rules == LoadRules(rules_raw) IN
            ops' = [ops EXCEPT ![p] =
                      [kind |-> "scan", pc |-> "loop", arg |-> threshold_days,
                       today |-> Today, rules |-> rules, subs |-> subs, i |-> 1,
                       stats |-> [mode |-> Mode(threshold_days),
                                  threshold_days |-> EffectiveThreshold(threshold_days, rules),
                                  auto_threshold |-> auto_threshold(rules),
                                  checked_subscriptions |-> 0, eligible |-> 0,
                                  skipped_already_sent_today |-> 0, sent |-> 0, errors |-> 0]]]
  /\ UNCHANGED <<storeVars, now, user_data, histVars>>

(* One pass of the loop body up to the transport call (or to `continue`). *)
ScanLoop(p) ==
  LET o == ops[p] IN
  /\ o.kind = "scan" /\ o.pc = "loop" /\ o.i <= Len(o.subs)
  /\ LET s == Cur(o)
         st1 == [o.stats EXCEPT !.checked_subscriptions = @ + 1]
         days_left == s.expires_at.day - o.today
         st2 == [st1 EXCEPT !.eligible = @ + 1]
     IN
     IF ~s.expires_at.iso \/ ~InWindow(days_left, o.stats.threshold_days)
     THEN ops' = [ops EXCEPT ![p] = [o EXCEPT !.stats = st1, !.i = @ + 1]]
     ELSE IF was_sent_on(reminder_daily_sends, s.id, o.today)
     THEN ops' = [ops EXCEPT ![p] =
                    [o EXCEPT !.stats = [st2 EXCEPT !.skipped_already_sent_today = @ + 1],
                              !.i = @ + 1]]
     ELSE IF strip(s.customer_email) = ""
     THEN ops' = [ops EXCEPT ![p] =
                    [o EXCEPT !.stats = [st2 EXCEPT !.errors = @ + 1], !.i = @ + 1]]
     ELSE ops' = [ops EXCEPT ![p] = [o EXCEPT !.stats = st2, !.pc = "await"]]
  /\ UNCHANGED <<storeVars, now, user_data, histVars>>

ScanSendOk_marks_threshold(p) ==
  LET o == ops[p] IN
  /\ o.kind = "scan" /\ o.pc = "await"
  /\ reminder_daily_sends' = AfterSend(reminder_daily_sends, TRUE, Cur(o).id, o.today, now)
  /\ reminder_sends' = reminder_sends \cup
       {[subscription_id |-> Cur(o).id,
         days_before |-> _pick_rule_for_display(o.rules, Cur(o).expires_at.day - o.today),
         sent_at |-> now]}
  /\ ops' = [ops EXCEPT ![p] = [o EXCEPT !.stats.sent = @ + 1, !.i = @ + 1, !.pc = "loop"]]
  /\ Delivered(Cur(o).id, TRUE)
  /\ UNCHANGED <<products, sqlite_sequence, schema, legacyVars, customers, subscriptions,
                 settings, now, user_data>>
ScanSendOk(p) ==
  LET o == ops[p] IN
  /\ o.kind = "scan" /\ o.pc = "await"
  /\ reminder_daily_sends' = AfterSend(reminder_daily_sends, TRUE, Cur(o).id, o.today, now)
  /\ ops' = [ops EXCEPT ![p] = [o EXCEPT !.stats.sent = @ + 1, !.i = @ + 1, !.pc = "loop"]]
  /\ Delivered(Cur(o).id, TRUE)
  /\ UNCHANGED <<catalogVars, customers, subscriptions, settings, now, user_data>>

ScanSendRaise_abort(p) ==
  LET o == ops[p] IN
  /\ o.kind = "scan" /\ o.pc = "await"
  /\ reminder_daily_sends' = AfterSend(reminder_daily_sends, FALSE, Cur(o).id, o.today, now)
  /\ ops' = [ops EXCEPT ![p] = [kind |-> "scan", pc |-> "raised"]]
  /\ failed' = failed \cup {Cur(o).id}
  /\ UNCHANGED <<catalogVars, customers, subscriptions, settings, now, user_data, reminders, acked, renewed, crashed>>
ScanSendRaise(p) ==
  LET o == ops[p] IN
  /\ o.kind = "scan" /\ o.pc = "await"
  /\ reminder_daily_sends' = AfterSend(reminder_daily_sends, FALSE, Cur(o).id, o.today, now)
  /\ ops' = [ops EXCEPT ![p] = [o EXCEPT !.stats.errors = @ + 1, !.i = @ + 1, !.pc = "loop"]]
  /\ failed' = failed \cup {Cur(o).id}
  /\ UNCHANGED <<catalogVars, customers, subscriptions, settings, now, user_data, reminders, acked, renewed, crashed>>

(* The process dies after the transport accepted the mail and before       *)
(* mark_sent_on ran: every task is gone, the store is as it was.            *)
ScanCrash(p) ==
  LET o == ops[p] IN
  /\ o.kind = "scan" /\ o.pc = "await"
  /\ ops' = [q \in Procs |-> Idle]
  /\ reminders' = [reminders EXCEPT ![Cur(o).id] = Bump(@)]
  /\ acked' = acked \cup {<<Cur(o).id, Today>>}
  /\ failed' = failed \ {Cur(o).id}
  /\ crashed' = crashed \cup {Cur(o).id}
  /\ UNCHANGED <<storeVars, now, user_data, renewed>>

ScanReturn(p) ==
  LET o == ops[p] IN
  /\ o.kind = "scan" /\ o.pc = "loop" /\ o.i > Len(o.subs)
  /\ ops' = [ops EXCEPT ![p] = [o EXCEPT !.pc = "done"]]
  /\ UNCHANGED <<storeVars, now, user_data, histVars>>

(* The caller has the result (or the exception); the task is free again. *)
Finish(p) ==
  /\ ops[p].kind # "idle" /\ ops[p].pc \in {"done", "raised"}
  /\ ops' = [ops EXCEPT ![p] = Idle]
  /\ UNCHANGED <<storeVars, now, user_data, histVars>>

(* send_subscription_now up to the transport call. *)
SendNowStart(p, subscription_id) ==
  /\ ops[p].kind = "idle"
  /\ LET rules_raw == get_setting("reminder_rules")
         s == get_subscription_detail(subscription_id)
     IN
     IF ~json_loads_ok(rules_raw)
     THEN ops' = [ops EXCEPT ![p] = [kind |-> "send_now", pc |-> "raised", sub_id |-> subscription_id]]
     ELSE IF s = None
     THEN ops' = [ops EXCEPT ![p] =
                    [kind |-> "send_now", pc |-> "done", sub_id |-> subscription_id,
                     result |-> [ok |-> FALSE, reason |-> "subscription_not_found"]]]
     ELSE IF ~s[1].expires_at.iso
     THEN ops' = [ops EXCEPT ![p] = [kind |-> "send_now", pc |-> "raised", sub_id |-> subscription_id]]
     ELSE IF strip(s[1].customer_email) = ""
     THEN ops' = [ops EXCEPT ![p] =
                    [kind |-> "send_now", pc |-> "done", sub_id |-> subscription_id,
                     result |-> [ok |-> FALSE, reason |-> "customer_email_empty"]]]
     ELSE ops' = [ops EXCEPT ![p] =
                    [kind |-> "send_now", pc |-> "await", sub_id |-> subscription_id,
                     today |-> Today, days_left |-> s[1].expires_at.day - Today]]
  /\ UNCHANGED <<storeVars, now, user_data, histVars>>

SendNowOk(p) ==
  LET o == ops[p] IN
  /\ o.kind = "send_now" /\ o.pc = "await"
  /\ reminder_daily_sends' = mark_sent_on(reminder_daily_sends, o.sub_id, o.today, now)
  /\ ops' = [ops EXCEPT ![p] =
               [kind |-> "send_now", pc |-> "done", sub_id |-> o.sub_id,
                result |-> [ok |-> TRUE, reason |-> ""]]]
  /\ Delivered(o.sub_id, TRUE)
  /\ UNCHANGED <<catalogVars, customers, subscriptions, settings, now, user_data>>

SendNowRaise_marks(p) ==
  LET o == ops[p] IN
  /\ o.kind = "send_now" /\ o.pc = "await"
  /\ reminder_daily_sends' = mark_sent_on(reminder_daily_sends, o.sub_id, o.today, now)
  /\ ops' = [ops EXCEPT ![p] = [kind |-> "send_now", pc |-> "raised"]]
  /\ UNCHANGED <<catalogVars, customers, subscriptions, settings, now, user_data, histVars>>
SendNowRaise(p) ==
  LET o == ops[p] IN
  /\ o.kind = "send_now" /\ o.pc = "await"
  /\ ops' = [ops EXCEPT ![p] = [kind |-> "send_now", pc |-> "raised"]]
  /\ UNCHANGED <<storeVars, now, user_data, histVars>>

(* ------------------- renewal: main.py, web.py, reminders.py ----------- *)
ChatNewExpiry(old_exp, today, add_days) ==
  LET base == IF old_exp >= today THEN old_exp ELSE today IN base + add_days
WebNewExpiry(old_date, today, renew_days) == old_date + renew_days

(* send_renewal_confirm up to the transport call, for the task's record o. *)
send_renewal_confirm(o, subscription_id) ==
  LET s == get_subscription_detail(subscription_id)' IN
  IF s = None
  THEN [o EXCEPT !.pc = "done", !.result = [ok |-> FALSE, reason |-> "subscription_not_found"]]
  ELSE IF strip(s[1].customer_email) = ""
  THEN [o EXCEPT !.pc = "done", !.result = [ok |-> FALSE, reason |-> "customer_email_empty"]]
  ELSE [o EXCEPT !.pc = "await"]

Renew(p, sid, days, entry) ==
  /\ ops[p].kind = "idle"
  /\ sid \in DOMAIN subscriptions
  /\ UNCHANGED <<catalogVars, customers, settings, reminder_daily_sends, now, user_data, histVars>>
  /\ LET old == subscriptions[sid].expires_at
         new_day == IF entry = "chat" THEN ChatNewExpiry(old.day, Today, days)
                    ELSE WebNewExpiry(old.day, Today, days)
         o == [kind |-> "renewal", pc |-> "start", entry |-> entry, sub_id |-> sid,
               today |-> Today, old_expires_at |-> old, new_expires_at |-> IsoDate(new_day),
               result |-> [ok |-> FALSE, reason |-> ""]]
     IN
     IF ~old.iso
     THEN /\ ops' = [ops EXCEPT ![p] = [kind |-> "renewal", pc |-> "raised"]]
          /\ UNCHANGED subscriptions
     ELSE /\ new_day <= MaxExpiry
          /\ subscriptions' = update_subscription_expires(sid, IsoDate(new_day))
          /\ ops' = [ops EXCEPT ![p] = send_renewal_confirm(o, sid)]

on_callback_sub_renew(p, sid, add_days) == Renew(p, sid, add_days, "chat")
subscription_renew(p, sid, renew_days) == Renew(p, sid, renew_days, "web")

RenewalSendOk_no_mark(p) ==
  LET o == ops[p] IN
  /\ o.kind = "renewal" /\ o.pc = "await"
  /\ ops' = [ops EXCEPT ![p] = [o EXCEPT !.pc = "done", !.result = [ok |-> TRUE, reason |-> ""]]]
  /\ Delivered(o.sub_id, FALSE)
  /\ UNCHANGED <<storeVars, now, user_data>>
RenewalSendOk(p) ==
  LET o == ops[p] IN
  /\ o.kind = "renewal" /\ o.pc = "await"
  /\ reminder_daily_sends' = mark_sent_on(reminder_daily_sends, o.sub_id, o.today, now)
  /\ ops' = [ops EXCEPT ![p] = [o EXCEPT !.pc = "done", !.result = [ok |-> TRUE, reason |-> ""]]]
  /\ Delivered(o.sub_id, FALSE)
  /\ UNCHANGED <<catalogVars, customers, subscriptions, settings, now, user_data>>

RenewalSendRaise(p) ==
  LET o == ops[p] IN
  /\ o.kind = "renewal" /\ o.pc = "await"
  /\ ops' = [ops EXCEPT ![p] = [o EXCEPT !.pc = "raised"]]
  /\ UNCHANGED <<storeVars, now, user_data, histVars>>

(* ------------------------ settings and the clock ---------------------- *)
settings_save(rules, email_tpl, renew_tpl) ==
  /\ settings' = set_setting(set_setting(set_setting(settings,
                     "reminder_rules", rules),
                     "email_template", email_tpl),
                     "renewal_confirm_template", renew_tpl)
  /\ UNCHANGED <<catalogVars, customers, subscriptions, reminder_daily_sends, now, user_data, ops, histVars>>

Tick ==
  /\ now < MaxNow
  /\ now' = now + 1
  /\ IF DateOf(now + 1) # DateOf(now)
     THEN /\ reminders' = [s \in SubIds |-> 0]
          /\ failed' = {}
          /\ renewed' = {}
          /\ crashed' = {}
     ELSE UNCHANGED <<reminders, failed, renewed, crashed>>
  /\ UNCHANGED <<storeVars, user_data, ops, acked>>

(* ------------------- db.py: the store's operations -------------------- *)
(* A call of task p that ran to its end: what it returned, or that it raised. *)
Returned(p, name, arg, result) ==
  ops' = [ops EXCEPT ![p] = [kind |-> name, pc |-> "done", arg |-> arg, result |-> result]]
\* a call that returns None: the caller is back where it was
Completed(p) == UNCHANGED ops
Raised(p, name, arg) ==
  ops' = [ops EXCEPT ![p] = [kind |-> name, pc |-> "raised", arg |-> arg]]

\* ON DELETE CASCADE from subscriptions to both record tables
CascadeDaily(subs) == {r \in reminder_daily_sends : r.subscription_id \in DOMAIN subs}
CascadeSends(subs) == {r \in reminder_sends : r.subscription_id \in DOMAIN subs}

Database_upsert_customer(p, email) ==
  LET e == lower(strip(email))
      hit == {c \in DOMAIN customers : customers[c].email = e}
      id == sqlite_sequence.customers + 1
  IN
  /\ ops[p].kind = "idle" /\ schema = "v4"
  /\ IF hit # {}
     THEN /\ Returned(p, "upsert_customer", email, CHOOSE c \in hit : TRUE)
          /\ UNCHANGED <<customers, sqlite_sequence>>
     ELSE /\ id \in RowIds
          /\ customers' = With(customers, id, [email |-> e])
          /\ sqlite_sequence' = [sqlite_sequence EXCEPT !.customers = id]
          /\ Returned(p, "upsert_customer", email, id)
  /\ UNCHANGED <<subscriptions, settings, reminder_daily_sends, products, reminder_sends,
                 schema, legacyVars, now, histVars>>
\* called from outside a chat conversation
upsert_customer(p, email) == Database_upsert_customer(p, email) /\ UNCHANGED user_data

update_customer_unchecked(p, customer_id, email) ==
  LET e == lower(strip(email)) IN
  /\ ops[p].kind = "idle" /\ schema = "v4"
  /\ customers' = IF customer_id \in DOMAIN customers
                  THEN [customers EXCEPT ![customer_id].email = e] ELSE customers
  /\ Returned(p, "update_customer", <<customer_id, email>>, TRUE)
  /\ UNCHANGED <<subscriptions, settings, reminder_daily_sends, catalogVars, now, user_data, histVars>>
update_customer(p, customer_id, email) ==
  LET e == lower(strip(email))
      taken == \E c \in DOMAIN customers : c # customer_id /\ customers[c].email = e
  IN
  /\ ops[p].kind = "idle" /\ schema = "v4"
  /\ IF customer_id \in DOMAIN customers /\ taken
     THEN /\ Returned(p, "update_customer", <<customer_id, email>>, FALSE)
          /\ UNCHANGED customers
     ELSE /\ customers' = IF customer_id \in DOMAIN customers
                          THEN [customers EXCEPT ![customer_id].email = e] ELSE customers
          /\ Returned(p, "update_customer", <<customer_id, email>>, TRUE)
  /\ UNCHANGED <<subscriptions, settings, reminder_daily_sends, catalogVars, now, user_data, histVars>>

delete_customer_no_cascade(p, customer_id) ==
  /\ ops[p].kind = "idle" /\ schema = "v4"
  /\ customers' = Without(customers, {customer_id})
  /\ subscriptions' =
       Without(subscriptions, {s \in DOMAIN subscriptions : subscriptions[s].customer_id = customer_id})
  /\ Returned(p, "delete_customer", customer_id, None)
  /\ UNCHANGED <<settings, reminder_daily_sends, catalogVars, now, user_data, histVars>>
delete_customer(p, customer_id) ==
  LET subs ==
        Without(subscriptions, {s \in DOMAIN subscriptions : subscriptions[s].customer_id = customer_id})
  IN
  /\ ops[p].kind = "idle" /\ schema = "v4"
  /\ customers' = Without(customers, {customer_id})
  /\ subscriptions' = subs
  /\ reminder_daily_sends' = CascadeDaily(subs)
  /\ reminder_sends' = CascadeSends(subs)
  /\ Returned(p, "delete_customer", customer_id, None)
  /\ UNCHANGED <<settings, products, sqlite_sequence, schema, legacyVars, now, user_data, histVars>>

\* COALESCE(excluded.content, products.content)
COALESCE(a, b) == IF a # NULL THEN a ELSE b
\* the products table after INSERT ... ON CONFLICT(name) DO UPDATE SET content
UpsertedProducts(table, seq, name, content) ==
  LET n == strip(name)
      hit == {k \in DOMAIN table : table[k].name = n}
      id == IF hit # {} THEN CHOOSE k \in hit : TRUE ELSE seq + 1
  IN [id |-> id,
      seq |-> IF hit # {} THEN seq ELSE id,
      products |-> IF hit # {}
                   THEN [table EXCEPT ![id].content = COALESCE(content, @)]
                   ELSE With(table, id, [name |-> n, content |-> content])]

Database_upsert_product(p, name, content) ==
  LET u == UpsertedProducts(products, sqlite_sequence.products, name, content) IN
  /\ ops[p].kind = "idle" /\ schema = "v4"
  /\ u.id \in RowIds
  /\ products' = u.products
  /\ sqlite_sequence' = [sqlite_sequence EXCEPT !.products = u.seq]
  /\ Returned(p, "upsert_product", <<name, content>>, u.id)
  /\ UNCHANGED <<customers, subscriptions, settings, reminder_daily_sends, reminder_sends,
                 schema, legacyVars, now, histVars>>
Database_add_product(p, name, content) == Database_upsert_product(p, name, content)
upsert_product(p, name, content) == Database_upsert_product(p, name, content) /\ UNCHANGED user_data
add_product(p, name, content) == upsert_product(p, name, content)

update_product_unchecked(p, product_id, name, content) ==
  /\ ops[p].kind = "idle" /\ schema = "v4"
  /\ products' = IF product_id \in DOMAIN products
                 THEN [products EXCEPT ![product_id] = [name |-> strip(name), content |-> content]]
                 ELSE products
  /\ Returned(p, "update_product", None, TRUE)
  /\ UNCHANGED <<customers, subscriptions, settings, reminder_daily_sends, reminder_sends,
                 sqlite_sequence, schema, legacyVars, now, user_data, histVars>>
update_product(p, product_id, name, content) ==
  LET n == strip(name)
      taken == \E k \in DOMAIN products : k # product_id /\ products[k].name = n
  IN
  /\ ops[p].kind = "idle" /\ schema = "v4"
  /\ IF product_id \in DOMAIN products /\ taken
     THEN /\ Returned(p, "update_product", None, FALSE)
          /\ UNCHANGED products
     ELSE /\ products' = IF product_id \in DOMAIN products
                         THEN [products EXCEPT ![product_id] = [name |-> n, content |-> content]]
                         ELSE products
          /\ Returned(p, "update_product", None, TRUE)
  /\ UNCHANGED <<customers, subscriptions, settings, reminder_daily_sends, reminder_sends,
                 sqlite_sequence, schema, legacyVars, now, user_data, histVars>>

count_subscriptions_for_product(product_id) ==
  Cardinality({s \in DOMAIN subscriptions : subscriptions[s].product_id = product_id})

(* delete_product: the SELECT COUNT and the early return. *)
delete_product_count_unchecked(p, product_id) ==
  /\ ops[p].kind = "idle" /\ schema = "v4"
  /\ ops' = [ops EXCEPT ![p] =
               [kind |-> "delete_product", pc |-> "counted", arg |-> product_id]]
  /\ UNCHANGED <<storeVars, now, user_data, histVars>>
delete_product_count(p, product_id) ==
  /\ ops[p].kind = "idle" /\ schema = "v4"
  /\ IF count_subscriptions_for_product(product_id) > 0
     THEN Returned(p, "delete_product", product_id, FALSE)
     ELSE ops' = [ops EXCEPT ![p] =
                    [kind |-> "delete_product", pc |-> "counted", arg |-> product_id]]
  /\ UNCHANGED <<storeVars, now, user_data, histVars>>

(* delete_product: the DELETE, under ON DELETE RESTRICT, and the commit. *)
delete_product_delete(p) ==
  LET o == ops[p] IN
  /\ o.kind = "delete_product" /\ o.pc = "counted"
  /\ IF count_subscriptions_for_product(o.arg) > 0
     THEN /\ Raised(p, "delete_product", o.arg)
          /\ UNCHANGED products
     ELSE /\ products' = Without(products, {o.arg})
          /\ Returned(p, "delete_product", o.arg, TRUE)
  /\ UNCHANGED <<customers, subscriptions, settings, reminder_daily_sends, reminder_sends,
                 sqlite_sequence, schema, legacyVars, now, user_data, histVars>>

add_subscription_unchecked(p, customer_id, product_id, expires_at, note) ==
  LET id == sqlite_sequence.subscriptions + 1 IN
  /\ ops[p].kind = "idle" /\ schema = "v4"
  /\ id \in RowIds
  /\ subscriptions' = With(subscriptions, id,
         [customer_id |-> customer_id, product_id |-> product_id,
                  expires_at |-> expires_at, note |-> note])
  /\ sqlite_sequence' = [sqlite_sequence EXCEPT !.subscriptions = id]
  /\ Returned(p, "add_subscription", <<customer_id, product_id>>, id)
  /\ UNCHANGED <<customers, settings, reminder_daily_sends, products, reminder_sends,
                 schema, legacyVars, now, user_data, histVars>>
add_subscription_customer_only(p, customer_id, product_id, expires_at, note) ==
  LET id == sqlite_sequence.subscriptions + 1 IN
  /\ ops[p].kind = "idle" /\ schema = "v4"
  /\ IF customer_id \in DOMAIN customers
     THEN /\ id \in RowIds
          /\ subscriptions' = With(subscriptions, id,
                 [customer_id |-> customer_id, product_id |-> product_id,
                  expires_at |-> expires_at, note |-> note])
          /\ sqlite_sequence' = [sqlite_sequence EXCEPT !.subscriptions = id]
          /\ Returned(p, "add_subscription", <<customer_id, product_id>>, id)
     ELSE /\ Raised(p, "add_subscription", <<customer_id, product_id>>)
          /\ UNCHANGED <<subscriptions, sqlite_sequence>>
  /\ UNCHANGED <<customers, settings, reminder_daily_sends, products, reminder_sends,
                 schema, legacyVars, now, user_data, histVars>>
Database_add_subscription(p, customer_id, product_id, expires_at, note) ==
  LET id == sqlite_sequence.subscriptions + 1 IN
  /\ ops[p].kind = "idle" /\ schema = "v4"
  /\ IF customer_id \in DOMAIN customers /\ product_id \in DOMAIN products
     THEN /\ id \in RowIds
          /\ subscriptions' = With(subscriptions, id,
                 [customer_id |-> customer_id, product_id |-> product_id,
                  expires_at |-> expires_at, note |-> note])
          /\ sqlite_sequence' = [sqlite_sequence EXCEPT !.subscriptions = id]
          /\ Returned(p, "add_subscription", <<customer_id, product_id>>, id)
     ELSE /\ Raised(p, "add_subscription", <<customer_id, product_id>>)
          /\ UNCHANGED <<subscriptions, sqlite_sequence>>
  /\ UNCHANGED <<customers, settings, reminder_daily_sends, products, reminder_sends,
                 schema, legacyVars, now, histVars>>
add_subscription(p, customer_id, product_id, expires_at, note) ==
  Database_add_subscription(p, customer_id, product_id, expires_at, note) /\ UNCHANGED user_data

update_subscription(p, subscription_id, new_expires_at, note) ==
  /\ ops[p].kind = "idle" /\ schema = "v4"
  /\ subscriptions' =
       IF subscription_id \in DOMAIN subscriptions
       THEN [subscriptions EXCEPT ![subscription_id].expires_at = new_expires_at,
                                  ![subscription_id].note = note]
       ELSE subscriptions
  /\ Completed(p)
  /\ UNCHANGED <<customers, settings, reminder_daily_sends, catalogVars, now, user_data, histVars>>

delete_subscription(p, subscription_id) ==
  LET subs == Without(subscriptions, {subscription_id}) IN
  /\ ops[p].kind = "idle" /\ schema = "v4"
  /\ subscriptions' = subs
  /\ reminder_daily_sends' = CascadeDaily(subs)
  /\ reminder_sends' = CascadeSends(subs)
  /\ Completed(p)
  /\ UNCHANGED <<customers, settings, products, sqlite_sequence, schema, legacyVars, now, user_data, histVars>>

Database_mark_sent_on(p, subscription_id) ==
  /\ ops[p].kind = "idle" /\ schema = "v4"
  /\ IF subscription_id \in DOMAIN subscriptions
     THEN /\ reminder_daily_sends' =
               mark_sent_on(reminder_daily_sends, subscription_id, Today, now)
          /\ Completed(p)
     ELSE /\ Raised(p, "mark_sent_on", None)
          /\ UNCHANGED reminder_daily_sends
  /\ UNCHANGED <<customers, subscriptions, settings, catalogVars, now, user_data, histVars>>

(* _maybe_migrate_legacy.  ORDER BY id ASC over the backup table. *)
SortedById_desc(rows) ==
  [k \in 1..Cardinality(rows) |->
     CHOOSE r \in rows : Cardinality({q \in rows : q.id > r.id}) = k - 1]
SortedById(rows) ==
  [k \in 1..Cardinality(rows) |->
     CHOOSE r \in rows : Cardinality({q \in rows : q.id < r.id}) = k - 1]

(* The loop over the legacy rows.  upsert_product and add_subscription     *)
(* commit on their own; a row the foreign keys reject raises out of init   *)
(* with the rows before it, and its product, already stored.               *)
RECURSIVE MigrateRows(_, _)
MigrateRows(rows, st) ==
  IF rows = <<>> THEN st
  ELSE LET r == Head(rows)
           u == UpsertedProducts(st.products, st.seq.products, r.name, NULL)
           seq1 == [st.seq EXCEPT !.products = u.seq]
           sub_id == st.seq.subscriptions + 1
       IN IF r.customer_id \notin DOMAIN customers
          THEN [st EXCEPT !.products = u.products, !.seq = seq1, !.raised = TRUE]
          ELSE MigrateRows(Tail(rows),
                 [products |-> u.products,
                  subscriptions |-> With(st.subscriptions, sub_id,
                     [customer_id |-> r.customer_id, product_id |-> u.id,
                      expires_at |-> r.expires_at, note |-> r.content]),
                  seq |-> [seq1 EXCEPT !.subscriptions = sub_id],
                  legacy_to_sub |-> With(st.legacy_to_sub, r.id, sub_id),
                  raised |-> FALSE])

(* The replay of the legacy per-threshold rows: INSERT OR IGNORE under     *)
(* UNIQUE(subscription_id, days_before); rows without a mapping are skipped *)
InsertOrIgnore(table, row) ==
  IF \E r \in table : r.subscription_id = row.subscription_id /\ r.days_before = row.days_before
  THEN table ELSE table \cup {row}
RECURSIVE ReplaySends_keep_orphans(_, _, _)
ReplaySends_keep_orphans(rows, legacy_to_sub, table) ==
  IF rows = {} THEN table
  ELSE LET rr == CHOOSE x \in rows : TRUE
           sub_id == IF rr.product_id \in DOMAIN legacy_to_sub
                     THEN legacy_to_sub[rr.product_id] ELSE rr.product_id
       IN ReplaySends_keep_orphans(rows \ {rr}, legacy_to_sub,
            InsertOrIgnore(table, [subscription_id |-> sub_id,
                                   days_before |-> rr.days_before, sent_at |-> rr.sent_at]))
RECURSIVE ReplaySends(_, _, _)
ReplaySends(rows, legacy_to_sub, table) ==
  IF rows = {} THEN table
  ELSE LET rr == CHOOSE x \in rows : TRUE IN
       ReplaySends(rows \ {rr}, legacy_to_sub,
         IF rr.product_id \notin DOMAIN legacy_to_sub THEN table
         ELSE InsertOrIgnore(table, [subscription_id |-> legacy_to_sub[rr.product_id],
                                     days_before |-> rr.days_before, sent_at |-> rr.sent_at]))

\* the early returns: no products table, subscriptions already there, or a
\* products table that is not legacy-shaped
MigrationApplies_any_backup == v3_products.exists \/ legacy_products.exists
MigrationApplies == schema = "v3" /\ v3_products.exists

\* RENAME products TO legacy_products, or DROP products when a backup exists
BackupAfterRename == IF ~legacy_products.exists THEN v3_products ELSE legacy_products

_maybe_migrate_legacy ==
  LET backup == BackupAfterRename
      st == MigrateRows(SortedById(backup.rows),
              [products |-> <<>>, subscriptions |-> <<>>, seq |-> sqlite_sequence,
               legacy_to_sub |-> <<>>, raised |-> FALSE])
  IN [legacy_products |-> backup,
      products |-> st.products,
      subscriptions |-> st.subscriptions,
      seq |-> st.seq,
      raised |-> st.raised,
      reminder_sends |->
        IF st.raised \/ ~legacy_reminder_sends.exists THEN {}
        ELSE ReplaySends(legacy_reminder_sends.rows, st.legacy_to_sub, {})]

\* init's three settings defaults, each written only when its key is absent
WithDefault_overwrite(table, key, value) == set_setting(table, key, value)
WithDefault(table, key, value) ==
  IF table[key] = Absent THEN set_setting(table, key, value) ELSE table
SettingsDefaults(table) ==
  WithDefault(WithDefault(WithDefault(table,
      "reminder_rules", JsonList(DEFAULT_RULES)),
      "email_template", DEFAULT_TEMPLATE),
      "renewal_confirm_template", DEFAULT_RENEWAL_CONFIRM_TEMPLATE)

(* Database.init *)
init(p) ==
  /\ ops[p].kind = "idle"
  /\ IF MigrationApplies
     THEN LET m == _maybe_migrate_legacy IN
          /\ legacy_products' = m.legacy_products
          /\ products' = m.products
          /\ subscriptions' = m.subscriptions
          /\ sqlite_sequence' = m.seq
          /\ reminder_sends' = m.reminder_sends
          /\ IF m.raised
             THEN Raised(p, "init", None) /\ UNCHANGED settings
             ELSE Returned(p, "init", None, None) /\ settings' = SettingsDefaults(settings)
     ELSE /\ Returned(p, "init", None, None)
          /\ settings' = SettingsDefaults(settings)
          /\ UNCHANGED <<products, subscriptions, sqlite_sequence, reminder_sends,
                         legacy_products>>
  /\ schema' = "v4"
  /\ v3_products' = NoTable
  /\ UNCHANGED <<customers, reminder_daily_sends, legacy_reminder_sends, now, user_data, histVars>>

(* main.on_text in state SET_RULES: the reply text is split on commas,     *)
(* blank pieces are dropped, each piece goes through int(); a piece int()   *)
(* rejects makes the handler answer "format error" and store nothing.       *)
ParsedRules(text) == {text[k].val : k \in DOMAIN text}
on_text_set_rules(p, text) ==
  /\ ops[p].kind = "idle" /\ schema = "v4"
  /\ IF \A k \in DOMAIN text : text[k].int
     THEN /\ settings' = set_setting(settings, "reminder_rules",
                                     JsonList(SortedDesc(ParsedRules(text))))
          /\ user_data' = _clear_state
          /\ Returned(p, "set_rules", None, TRUE)
     ELSE /\ UNCHANGED <<settings, user_data>>
          /\ Returned(p, "set_rules", None, FALSE)
  /\ UNCHANGED <<catalogVars, customers, subscriptions, reminder_daily_sends, now, histVars>>

(* main.on_text in the template states: the stored template (an empty     *)
(* object when none is stored) gets the reply text as its subject or body *)
(* and is stored again as a JSON object                                    *)
on_text_set_template(p, text) ==
  /\ ops[p].kind = "idle" /\ schema = "v4"
  /\ settings' = set_setting(settings, "email_template",
                             [json |-> "object", items |-> <<text>>])
  /\ user_data' = _clear_state
  /\ Completed(p)
  /\ UNCHANGED <<catalogVars, customers, subscriptions, reminder_daily_sends, now, histVars>>

(* ------------------ main.py: the chat's text router ------------------- *)
(* The texts an admin may type (already stripped), and what the parsers   *)
(* of the handler make of each: int(), EMAIL_RE, date.fromisoformat and    *)
(* the comma split of the rules branch.                                    *)
ChatTexts == {"45", "0", "4000", "a@x.io", "2024-01-02", "-", ""}
IsInt(text) == text \in {"45", "0", "4000"}
IntOf(text) == CASE text = "45" -> 45 [] text = "0" -> 0 [] text = "4000" -> 4000
EMAIL_RE(text) == text = "a@x.io"
IsDate(text) == text = "2024-01-02"
fromisoformat(text) == IsoDate(1)
Pieces(text) ==
  IF text = "" THEN <<>> ELSE IF IsInt(text) THEN <<Piece(IntOf(text))>> ELSE <<Junk>>
MaxDays == 3650
ValidDays(text) == IsInt(text) /\ IntOf(text) > 0 /\ IntOf(text) <= MaxDays
DashIsEmpty(text) == IF text = "-" THEN "" ELSE text
OrNone(text) == IF text = "" THEN NULL ELSE text

_set_state(state) == [user_data EXCEPT !.state = state]
\* the handler answers and returns: nothing but the conversation changes
Reply(p, data) ==
  /\ user_data' = data
  /\ Completed(p)
  /\ UNCHANGED <<storeVars, now, histVars>>

(* on_callback: the buttons that open a conversation, and the menus that   *)
(* close it. Buttons carrying an id first look the row up.                 *)
ChatButtons ==
  {"cust:add", "cat:add", "sub:add", "exp:menu", "exp:custom", "tpl:set_subject",
   "tpl:set_html", "menu:rules", "rules:set", "action:scan_now", "scan:custom"}
ButtonState(data) ==
  CASE data = "cust:add" -> STATE_ADD_CUST_NAME
    [] data = "cat:add" -> STATE_ADD_CATALOG_NAME
    [] data = "sub:add" -> STATE_ADD_SUB_PICK_CUST
    [] data = "exp:custom" -> STATE_EXP_CUSTOM_DAYS
    [] data = "tpl:set_subject" -> STATE_SET_TPL_SUBJECT
    [] data = "tpl:set_html" -> STATE_SET_TPL_HTML
    [] data = "rules:set" -> STATE_SET_RULES
    [] data = "scan:custom" -> STATE_SCAN_CUSTOM_DAYS
    [] OTHER -> STATE_NONE
on_callback(p, data) ==
  /\ ops[p].kind = "idle" /\ schema = "v4"
  /\ Reply(p, IF ButtonState(data) = STATE_NONE THEN _clear_state
              ELSE _set_state(ButtonState(data)))
on_callback_choose_cust(p, cid) ==
  /\ ops[p].kind = "idle" /\ schema = "v4"
  /\ Reply(p, IF cid \in DOMAIN customers
              THEN [_set_state(STATE_ADD_SUB_PICK_PROD) EXCEPT !.sub_customer_id = cid]
              ELSE user_data)
on_callback_choose_prod(p, pid) ==
  /\ ops[p].kind = "idle" /\ schema = "v4"
  /\ Reply(p, IF pid \in DOMAIN products
              THEN [_set_state(STATE_ADD_SUB_EXPIRES) EXCEPT !.sub_product_id = pid]
              ELSE user_data)
on_callback_edit_exp(p, sid) ==
  /\ ops[p].kind = "idle" /\ schema = "v4"
  /\ Reply(p, IF get_subscription_detail(sid) # None
              THEN [_set_state(STATE_EDIT_SUB_EXPIRES) EXCEPT !.edit_sub_id = sid]
              ELSE user_data)
cmd_cancel(p) ==
  /\ ops[p].kind = "idle" /\ schema = "v4"
  /\ Reply(p, _clear_state)

(* on_text: one branch per conversation state, each ending in return. The  *)
(* code after the last branch has no condition of its own: it clears the    *)
(* conversation and formats a reply from `days`, a local that no statement  *)
(* on this path has bound, so the handler raises before scan_and_send.      *)
on_text(p, text) ==
  LET state == _get_state
      cid == user_data.sub_customer_id
      pid == user_data.sub_product_id
      exp == user_data.sub_expires_at
      sid == user_data.edit_sub_id
  IN
  /\ ops[p].kind = "idle" /\ schema = "v4"
  /\ CASE state = STATE_ADD_CUST_NAME -> Reply(p, _set_state(STATE_ADD_CUST_EMAIL))
       [] state = STATE_ADD_CUST_EMAIL ->
            IF ~EMAIL_RE(text) THEN Reply(p, user_data)
            ELSE Database_upsert_customer(p, text) /\ user_data' = _clear_state
       [] state = STATE_ADD_CATALOG_NAME ->
            IF text = "" THEN Reply(p, user_data)
            ELSE Reply(p, [_set_state(STATE_ADD_CATALOG_CONTENT) EXCEPT !.catalog_name = text])
       [] state = STATE_ADD_CATALOG_CONTENT ->
            IF strip(user_data.catalog_name) = "" THEN Reply(p, _clear_state)
            ELSE /\ Database_add_product(p, strip(user_data.catalog_name),
                                         OrNone(DashIsEmpty(text)))
                 /\ user_data' = _clear_state
       [] state = STATE_ADD_SUB_EXPIRES ->
            IF ~IsDate(text) THEN Reply(p, user_data)
            ELSE Reply(p, [_set_state(STATE_ADD_SUB_NOTE) EXCEPT !.sub_expires_at = text])
       [] state = STATE_ADD_SUB_NOTE ->
            IF cid = 0 \/ pid = 0 \/ exp = "" THEN Reply(p, _clear_state)
            ELSE /\ Database_add_subscription(p, cid, pid, fromisoformat(exp),
                                              OrNone(DashIsEmpty(text)))
                 /\ user_data' = IF ops'[p].pc = "done" THEN _clear_state ELSE user_data
       [] state = STATE_EDIT_SUB_EXPIRES ->
            IF ~IsDate(text) THEN Reply(p, user_data)
            ELSE IF sid = 0 THEN Reply(p, _clear_state)
            ELSE /\ subscriptions' = update_subscription_expires(sid, fromisoformat(text))
                 /\ user_data' = _clear_state
                 /\ Completed(p)
                 /\ UNCHANGED <<customers, settings, reminder_daily_sends, catalogVars,
                                now, histVars>>
       [] state = STATE_SET_RULES -> on_text_set_rules(p, Pieces(text))
       [] state \in {STATE_SET_TPL_SUBJECT, STATE_SET_TPL_HTML} ->
            IF text = "" THEN Reply(p, user_data) ELSE on_text_set_template(p, text)
       [] state = STATE_EXP_CUSTOM_DAYS ->
            IF ValidDays(text) THEN Reply(p, _clear_state) ELSE Reply(p, user_data)
       [] OTHER ->
            /\ user_data' = _clear_state
            /\ Raised(p, "on_text", text)
            /\ UNCHANGED <<storeVars, now, histVars>>

(* --------------------------- specification ---------------------------- *)
Init ==
  /\ customers \in {c \in [SubIds -> [email : {Blank} \cup {Address(k) : k \in SubIds}]] :
                      /\ c[1].email \in {Blank, Address(1)}
                      /\ \A k \in SubIds \ {1} : c[k].email = Address(k)}
  /\ subscriptions \in {s \in [SubIds -> [customer_id : SubIds, product_id : {1},
                                          expires_at : InitExpiry, note : {NULL}]] :
                          \A k \in SubIds : s[k].customer_id = k}
  /\ settings = DefaultSettings
  /\ reminder_daily_sends = {}
  /\ products = [k \in {1} |-> [name |-> "basic", content |-> NULL]]
  /\ reminder_sends = {}
  /\ sqlite_sequence = [customers |-> 2, products |-> 1, subscriptions |-> 2]
  /\ schema = "v4"
  /\ v3_products = NoTable
  /\ legacy_products = NoTable
  /\ legacy_reminder_sends = NoTable
  /\ now = 0
  /\ user_data = NoUserData
  /\ ops = [p \in Procs |-> Idle]
  /\ reminders = [s \in SubIds |-> 0]
  /\ acked = {}
  /\ failed = {}
  /\ renewed = {}
  /\ crashed = {}

(* One call at a time: a call starts when no other is in progress. *)
Sequential(p) == p = 1 /\ AllIdle

Next ==
  \/ \E p \in Procs : Sequential(p) /\ ScanStart(p, None)
  \/ \E p \in Procs, t \in ManualThresholds : Sequential(p) /\ ScanStart(p, Some(t))
  \/ \E p \in Procs : ScanLoop(p)
  \/ \E p \in Procs : ScanSendOk(p)
  \/ \E p \in Procs : ScanSendRaise(p)
  \/ \E p \in Procs : ScanReturn(p)
  \/ \E p \in Procs, id \in AnyId : Sequential(p) /\ SendNowStart(p, id)
  \/ \E p \in Procs : SendNowOk(p)
  \/ \E p \in Procs : SendNowRaise(p)
  \/ \E p \in Procs, id \in SubIds, n \in ChatRenewDays : Sequential(p) /\ on_callback_sub_renew(p, id, n)
  \/ \E p \in Procs, id \in SubIds, n \in WebRenewDays : Sequential(p) /\ subscription_renew(p, id, n)
  \/ \E p \in Procs : RenewalSendOk(p)
  \/ \E p \in Procs : RenewalSendRaise(p)
  \/ \E p \in Procs : Finish(p)
  \/ \E doc \in RuleDocs : AllIdle /\ settings_save(doc, DEFAULT_TEMPLATE, DEFAULT_RENEWAL_CONFIRM_TEMPLATE)
  \/ AllIdle /\ Tick

Spec == Init /\ [][Next]_vars

(* The tables as SCHEMA_V4 declares them. *)
TypeOK ==
  /\ DOMAIN customers = SubIds
  /\ DOMAIN subscriptions \subseteq SubIds
  /\ \A id \in DOMAIN subscriptions : subscriptions[id].customer_id \in DOMAIN customers
  /\ \A r \in reminder_daily_sends :
       r.subscription_id \in DOMAIN subscriptions /\ r.sent_date = DateOf(r.sent_at)
  /\ now \in 0..MaxNow

(* Liveness: both subscriptions start inside the automatic window with a     *)
(* customer address.  The interval job keeps firing, a coroutine that can    *)
(* step does, every transport call returns (it has a timeout), and a         *)
(* transport that is called again and again for a subscription accepts.      *)
InitLive ==
  /\ Init
  /\ \A k \in SubIds : customers[k].email = Address(k)
  /\ \A k \in SubIds : subscriptions[k].expires_at = IsoDate(1)

NextLive ==
  \/ \E p \in Procs : Sequential(p) /\ ScanStart(p, None)
  \/ \E p \in Procs, t \in ManualThresholds : Sequential(p) /\ ScanStart(p, Some(t))
  \/ \E p \in Procs : ScanLoop(p)
  \/ \E p \in Procs : ScanSendOk(p)
  \/ \E p \in Procs : ScanSendRaise(p)
  \/ \E p \in Procs : ScanReturn(p)
  \/ \E p \in Procs, id \in AnyId : Sequential(p) /\ SendNowStart(p, id)
  \/ \E p \in Procs : SendNowOk(p)
  \/ \E p \in Procs : SendNowRaise(p)
  \/ \E p \in Procs : Finish(p)
  \/ \E doc \in RuleDocs : AllIdle /\ settings_save(doc, DEFAULT_TEMPLATE, DEFAULT_RENEWAL_CONFIRM_TEMPLATE)
  \/ AllIdle /\ Tick

Fairness ==
  /\ SF_vars(\E p \in Procs : Sequential(p) /\ ScanStart(p, None))
  /\ \A p \in Procs :
       /\ WF_vars(ScanLoop(p) \/ ScanReturn(p) \/ Finish(p))
       /\ WF_vars(ScanSendOk(p) \/ ScanSendRaise(p))
       /\ WF_vars(SendNowOk(p) \/ SendNowRaise(p))
       /\ \A s \in SubIds : SF_vars(ScanSendOk(p) /\ Cur(ops[p]).id = s)

SpecLive == InitLive /\ [][NextLive]_vars /\ Fairness

(* The store on its own: Database.init on a fresh or a legacy file, then any *)
(* store operation.  Task 2 acts only between the two statements of task 1's *)
(* delete_product, the one operation here that is not a single statement.    *)
InitStore ==
  /\ \/ /\ schema = "fresh" /\ customers = <<>>
        /\ sqlite_sequence = [customers |-> 0, products |-> 0, subscriptions |-> 0]
        /\ v3_products = NoTable /\ legacy_reminder_sends = NoTable
     \/ /\ schema = "v3" /\ customers = [k \in {1} |-> [email |-> "a@x.io"]]
        /\ sqlite_sequence = [customers |-> 1, products |-> 0, subscriptions |-> 0]
        /\ v3_products \in LegacyTables /\ legacy_reminder_sends \in LegacySends
  /\ legacy_products = NoTable
  /\ subscriptions = <<>> /\ products = <<>>
  /\ reminder_sends = {} /\ reminder_daily_sends = {}
  /\ settings = NoSettings
  /\ now = 0
  /\ user_data = NoUserData
  /\ ops = [p \in Procs |-> Idle]
  /\ reminders = [s \in SubIds |-> 0]
  /\ acked = {} /\ failed = {} /\ renewed = {} /\ crashed = {}

Interleaved(p) ==
  IF p = 1 THEN ops[2].kind = "idle"
  ELSE ops[1].kind = "delete_product" /\ ops[1].pc = "counted"

NextStore ==
  \/ \E p \in Procs : Interleaved(p) /\ schema # "v4" /\ init(p)
  \/ \E p \in Procs, e \in EmailTexts : Interleaved(p) /\ upsert_customer(p, e)
  \/ \E p \in Procs, c \in RowIds, e \in EmailTexts : Interleaved(p) /\ update_customer(p, c, e)
  \/ \E p \in Procs, c \in RowIds : Interleaved(p) /\ delete_customer(p, c)
  \/ \E p \in Procs, n \in StoreProductNames : Interleaved(p) /\ add_product(p, n, NULL)
  \/ \E p \in Procs, k \in RowIds, n \in StoreProductNames :
       Interleaved(p) /\ update_product(p, k, n, NULL)
  \/ \E p \in Procs, k \in RowIds : Interleaved(p) /\ delete_product_count(p, k)
  \/ \E p \in Procs : delete_product_delete(p)
  \/ \E p \in Procs, c \in RowIds, k \in RowIds, x \in StoreExpiry :
       Interleaved(p) /\ add_subscription(p, c, k, x, NULL)
  \/ \E p \in Procs, s \in RowIds, x \in StoreExpiry : Interleaved(p) /\ update_subscription(p, s, x, NULL)
  \/ \E p \in Procs, s \in RowIds : Interleaved(p) /\ delete_subscription(p, s)
  \/ \E p \in Procs, s \in RowIds : Interleaved(p) /\ Database_mark_sent_on(p, s)
  \/ \E p \in Procs : Finish(p)

SpecStore == InitStore /\ [][NextStore]_vars

(* The product catalog alone, on an initialised store without customers:   *)
(* products are added, edited and deleted with every kind of content.       *)
InitCatalog ==
  /\ schema = "v4" /\ customers = <<>>
  /\ sqlite_sequence = [customers |-> 0, products |-> 0, subscriptions |-> 0]
  /\ v3_products = NoTable /\ legacy_products = NoTable /\ legacy_reminder_sends = NoTable
  /\ subscriptions = <<>> /\ products = <<>>
  /\ reminder_sends = {} /\ reminder_daily_sends = {}
  /\ settings = DefaultSettings
  /\ now = 0
  /\ user_data = NoUserData
  /\ ops = [p \in Procs |-> Idle]
  /\ reminders = [s \in SubIds |-> 0]
  /\ acked = {} /\ failed = {} /\ renewed = {} /\ crashed = {}

NextCatalog ==
  \/ \E p \in Procs, n \in ProductNames, c \in Contents : Interleaved(p) /\ add_product(p, n, c)
  \/ \E p \in Procs, k \in RowIds, n \in ProductNames, c \in Contents :
       Interleaved(p) /\ update_product(p, k, n, c)
  \/ \E p \in Procs, k \in RowIds : Interleaved(p) /\ delete_product_count(p, k)
  \/ \E p \in Procs : delete_product_delete(p)
  \/ \E p \in Procs : Finish(p)

SpecCatalog == InitCatalog /\ [][NextCatalog]_vars

(* Startup on every kind of file, and the configuration updates: a fresh   *)
(* file, a legacy file, and a legacy-shaped products table next to a backup *)
(* left by an earlier run; init may run again at any time (a restart).      *)
OldBackups == {Table({LegacyRow(1, 1, "pro", "d2")})}
InitFile ==
  /\ \/ /\ schema = "fresh" /\ customers = <<>>
        /\ sqlite_sequence = [customers |-> 0, products |-> 0, subscriptions |-> 0]
        /\ v3_products = NoTable /\ legacy_products = NoTable
        /\ legacy_reminder_sends = NoTable
        /\ settings = NoSettings
     \/ /\ schema = "v3" /\ customers = [k \in {1} |-> [email |-> "a@x.io"]]
        /\ sqlite_sequence = [customers |-> 1, products |-> 0, subscriptions |-> 0]
        /\ v3_products \in LegacyTables
        /\ legacy_products \in {NoTable} \cup OldBackups
        /\ legacy_reminder_sends \in {NoTable} \cup LegacySends
        /\ settings \in {NoSettings, [NoSettings EXCEPT !.reminder_rules = JsonList(<<7>>)]}
  /\ subscriptions = <<>> /\ products = <<>>
  /\ reminder_sends = {} /\ reminder_daily_sends = {}
  /\ now = 0
  /\ user_data = NoUserData
  /\ ops = [p \in Procs |-> Idle]
  /\ reminders = [s \in SubIds |-> 0]
  /\ acked = {} /\ failed = {} /\ renewed = {} /\ crashed = {}

NextInit ==
  \/ \E p \in Procs : Sequential(p) /\ init(p)
  \/ \E p \in Procs, text \in ChatRuleTexts : Sequential(p) /\ on_text_set_rules(p, text)
  \/ \E p \in Procs, text \in ChatSubjects : Sequential(p) /\ on_text_set_template(p, text)
  \/ \E doc \in RuleDocs, e \in TemplateDocs, r \in TemplateDocs :
       AllIdle /\ schema = "v4" /\ settings_save(doc, e, r)
  \/ \E p \in Procs, s \in RowIds : Sequential(p) /\ delete_subscription(p, s)
  \/ \E p \in Procs : Finish(p)

SpecInit == InitFile /\ [][NextInit]_vars

(* The admin's chat on an initialised, empty store: buttons and texts in   *)
(* any order, one update handled at a time. The session explored changes    *)
(* the store at most MaxChatWrites times (rows added, settings changed).    *)
MaxChatWrites == 3
ChatWrites ==
  sqlite_sequence.customers + sqlite_sequence.products + sqlite_sequence.subscriptions
  + Cardinality({key \in DOMAIN settings : settings[key] # DefaultSettings[key]})
NextChat ==
  \/ \E p \in Procs, data \in ChatButtons : Sequential(p) /\ on_callback(p, data)
  \/ \E p \in Procs, cid \in RowIds : Sequential(p) /\ on_callback_choose_cust(p, cid)
  \/ \E p \in Procs, pid \in RowIds : Sequential(p) /\ on_callback_choose_prod(p, pid)
  \/ \E p \in Procs, sid \in RowIds : Sequential(p) /\ on_callback_edit_exp(p, sid)
  \/ \E p \in Procs : Sequential(p) /\ cmd_cancel(p)
  \/ \E p \in Procs, text \in ChatTexts :
       Sequential(p) /\ ChatWrites < MaxChatWrites /\ on_text(p, text)
  \/ \E p \in Procs : Finish(p)

SpecChat == InitCatalog /\ [][NextChat]_vars

(* Overlapping scan passes: the interval job and a manual scan are separate *)
(* tasks (main.py) or threads (web.py) and nothing serialises them, so a    *)
(* pass may start while another waits on the transport.                     *)
NextOverlap ==
  \/ \E p \in Procs : ScanStart(p, None)
  \/ \E p \in Procs, t \in ManualThresholds : ScanStart(p, Some(t))
  \/ \E p \in Procs : ScanLoop(p)
  \/ \E p \in Procs : ScanSendOk(p)
  \/ \E p \in Procs : ScanSendRaise(p)
  \/ \E p \in Procs : ScanReturn(p)
  \/ \E p \in Procs : Finish(p)
  \/ AllIdle /\ Tick

SpecOverlap == InitLive /\ [][NextOverlap]_vars

(* Scans one at a time, with a process that may die between the transport's *)
(* confirmation and the mark.                                               *)
NextCrash ==
  \/ \E p \in Procs : Sequential(p) /\ ScanStart(p, None)
  \/ \E p \in Procs, t \in ManualThresholds : Sequential(p) /\ ScanStart(p, Some(t))
  \/ \E p \in Procs : ScanLoop(p)
  \/ \E p \in Procs : ScanSendOk(p)
  \/ \E p \in Procs : ScanSendRaise(p)
  \/ \E p \in Procs : ScanCrash(p)
  \/ \E p \in Procs : ScanReturn(p)
  \/ \E p \in Procs : Finish(p)
  \/ AllIdle /\ Tick

SpecCrash == InitLive /\ [][NextCrash]_vars

(* The rule resolver alone: it is a pure function of the rule list and the *)
(* remaining days, called with every list and every number of days below.  *)
RuleLists ==
  {<<30, 7, 1, 0>>, <<>>, <<7>>, <<0>>, <<1, 30>>, <<5, -1>>}
DaysLeftValues == {-3, -1, 0, 1, 2, 5, 7, 8, 20, 30, 31, 45}
pick_rule(p, rules, days_left) ==
  /\ ops[p].kind = "idle"
  /\ Returned(p, "_pick_rule_for_display", <<rules, days_left>>,
              _pick_rule_for_display(rules, days_left))
  /\ UNCHANGED <<storeVars, now, user_data, histVars>>

NextResolve ==
  \/ \E p \in Procs, rules \in RuleLists, d \in DaysLeftValues : pick_rule(p, rules, d)
  \/ \E p \in Procs : Finish(p)

SpecResolve == InitCatalog /\ [][NextResolve]_vars

(* ------------------------------ properties ---------------------------- *)
RecordIn(table, s, d) == \E r \in table : r.subscription_id = s /\ r.sent_date = d
RecordFor(s, d) == RecordIn(reminder_daily_sends, s, d)
RowsFor(s, d) == {r \in reminder_daily_sends : r.subscription_id = s /\ r.sent_date = d}
Running(o) == o.kind # "idle" /\ o.pc \notin {"raised"}
AtCandidate(o) == o.kind = "scan" /\ o.pc = "loop" /\ o.i <= Len(o.subs)
DaysLeft(o) == Cur(o).expires_at.day - o.today
InRange(o) ==
  Cur(o).expires_at.iso /\ -1 <= DaysLeft(o) /\ DaysLeft(o) <= o.stats.threshold_days
Awaiting(o) == o.kind # "idle" /\ o.pc = "await"
SubOf(o) == IF o.kind = "scan" THEN Cur(o).id ELSE o.sub_id
\* the step in which task p's transport call returns successfully / raises
SendReturned(p) ==
  /\ Awaiting(ops[p]) /\ ops'[p] # ops[p]
  /\ IF ops[p].kind = "scan"
     THEN ops'[p].pc = "loop" /\ ops'[p].stats.sent = ops[p].stats.sent + 1
     ELSE ops'[p].pc = "done"
SendRaised(p) ==
  /\ Awaiting(ops[p]) /\ ops'[p] # ops[p]
  /\ ~SendReturned(p)
Largest(R) == CHOOSE x \in Range(R) : \A y \in Range(R) : y <= x
ConfiguredRules ==
  IF Falsy(settings.reminder_rules) THEN DEFAULT_RULES ELSE settings.reminder_rules.items

\* C1: on one calendar date the transport accepts at most one reminder per
\* subscription, over any sequential order of automatic scans, manual scans
\* and send_subscription_now calls.
C1_AtMostOneReminderPerDay == \A s \in SubIds : reminders[s] <= 1

\* C2: once a Daily Send Record exists for (s, today), a scan pass that
\* reaches s sends nothing: the transport is not called and 'sent' stays; when
\* s is inside the window it is counted in 'eligible' and in
\* 'skipped_already_sent_today'.
C2_ScanSkipsRecorded ==
  [][\A p \in Procs :
       (AtCandidate(ops[p]) /\ RecordFor(Cur(ops[p]).id, ops[p].today) /\ ops'[p] # ops[p])
       => /\ ops'[p].pc = "loop"
          /\ ops'[p].stats.sent = ops[p].stats.sent
          /\ reminders' = reminders
          /\ reminder_daily_sends' = reminder_daily_sends
          /\ InRange(ops[p]) =>
               /\ ops'[p].stats.eligible = ops[p].stats.eligible + 1
               /\ ops'[p].stats.skipped_already_sent_today =
                    ops[p].stats.skipped_already_sent_today + 1]_vars
C2_Witness ==
  \E p \in Procs :
    /\ ops[p].kind = "scan" /\ ops[p].pc = "done"
    /\ ops[p].stats.skipped_already_sent_today >= 1 /\ ops[p].stats.sent = 0
    /\ \E k \in DOMAIN ops[p].subs :
         reminders[ops[p].subs[k].id] = 1 /\ RecordFor(ops[p].subs[k].id, ops[p].today)

\* C3: send_subscription_now does not call the transport when a Daily Send
\* Record already exists for (subscription_id, today).
C3_SendNowRespectsGuard ==
  \A p \in Procs :
    (ops[p].kind = "send_now" /\ ops[p].pc = "await")
    => ~RecordFor(ops[p].sub_id, ops[p].today)

\* C4: there is at most one Daily Send Record per (subscription, date), and
\* a mark_sent_on for a pair that already has a record changes nothing: the
\* call completes and the table, with the first record's sent_at, stays.
C4_OneRecordPerPair ==
  /\ [](\A r1, r2 \in reminder_daily_sends :
          (r1.subscription_id = r2.subscription_id /\ r1.sent_date = r2.sent_date) => r1 = r2)
  /\ [][\A p \in Procs :
          SendReturned(p) =>
            /\ RecordIn(reminder_daily_sends', SubOf(ops[p]), ops[p].today)
            /\ RecordFor(SubOf(ops[p]), ops[p].today) =>
                 reminder_daily_sends' = reminder_daily_sends]_vars
C4_Witness ==
  \E p \in Procs, r \in reminder_daily_sends :
    /\ ops[p].kind \in {"send_now", "renewal"} /\ ops[p].pc = "done" /\ ops[p].result.ok
    /\ r.subscription_id = ops[p].sub_id /\ r.sent_date = Today /\ r.sent_at < now
    /\ Cardinality(RowsFor(ops[p].sub_id, Today)) = 1

\* C5: a Daily Send Record for (s, D) exists only if a transport call for s
\* returned successfully on D; a transport call that raises (scan,
\* send_subscription_now, send_renewal_confirm) leaves the table unchanged.
C5_RecordOnlyAfterSuccess ==
  /\ [](\A r \in reminder_daily_sends : <<r.subscription_id, r.sent_date>> \in acked)
  /\ [][\A p \in Procs : SendRaised(p) => reminder_daily_sends' = reminder_daily_sends]_vars
C5_Witness ==
  /\ \E p \in Procs : ops[p].kind \in {"send_now", "renewal"} /\ ops[p].pc = "raised"
  /\ failed # {}
  /\ reminder_daily_sends # {}

\* C6 (as claimed): no entry point of the engine calls the transport for a
\* reminder to a subscription with expiry - today < -1.
C6_EngineNeverSendsLongExpired ==
  \A p \in Procs :
    (ops[p].kind \in {"scan", "send_now"} /\ ops[p].pc = "await")
    => (IF ops[p].kind = "scan" THEN DaysLeft(ops[p]) ELSE ops[p].days_left) >= -1

\* C6 (amended): no scan pass, automatic or manual with any threshold, calls
\* the transport for or counts a subscription with expiry - today < -1.
C6_ScanNeverSendsLongExpired ==
  \A p \in Procs :
    (ops[p].kind = "scan" /\ ops[p].pc = "await") => DaysLeft(ops[p]) >= -1
C6_Witness ==
  \E p \in Procs :
    /\ ops[p].kind = "scan" /\ ops[p].pc = "done" /\ ops[p].stats.threshold_days = 60
    /\ \E k \in DOMAIN ops[p].subs :
         /\ ops[p].subs[k].expires_at.iso
         /\ ops[p].subs[k].expires_at.day - ops[p].today < -1
         /\ strip(ops[p].subs[k].customer_email) # ""
         /\ ~RecordFor(ops[p].subs[k].id, ops[p].today)

\* C7: in a scan pass with effective threshold T a subscription with
\* d = expiry - today is counted eligible iff -1 <= d <= T; one outside the
\* range is not sent to and not counted in eligible, skipped, sent or errors.
C7_WindowIsInclusive ==
  [][\A p \in Procs :
       (AtCandidate(ops[p]) /\ ops'[p] # ops[p]) =>
         LET st == ops[p].stats
             nx == ops'[p].stats
         IN /\ nx.checked_subscriptions = st.checked_subscriptions + 1
            /\ Cur(ops[p]).expires_at.iso =>
                 ((nx.eligible = st.eligible + 1) <=>
                    (-1 <= DaysLeft(ops[p]) /\ DaysLeft(ops[p]) <= st.threshold_days))
            /\ ~InRange(ops[p]) =>
                 /\ ops'[p].pc = "loop"
                 /\ nx.eligible = st.eligible
                 /\ nx.skipped_already_sent_today = st.skipped_already_sent_today
                 /\ nx.sent = st.sent /\ nx.errors = st.errors
                 /\ reminder_daily_sends' = reminder_daily_sends]_vars
C7_Witness ==
  \E p \in Procs :
    /\ ops[p].kind = "scan" /\ ops[p].pc = "done"
    /\ ops[p].stats.eligible = 1 /\ ops[p].stats.checked_subscriptions = 2
    /\ \E k, j \in DOMAIN ops[p].subs :
         /\ ops[p].subs[k].expires_at.iso /\ ops[p].subs[j].expires_at.iso
         /\ ops[p].subs[k].expires_at.day - ops[p].today = ops[p].stats.threshold_days
         /\ ops[p].subs[j].expires_at.day - ops[p].today = ops[p].stats.threshold_days + 1

\* C8: without a threshold a scan runs in mode 'auto' with the largest
\* configured rule as threshold (0 for an empty list); with a threshold it runs
\* in mode 'manual' with exactly that threshold; the stats carry the mode, the
\* threshold used and the automatic threshold.
C8_ModeAndThreshold ==
  \A p \in Procs :
    (ops[p].kind = "scan" /\ ops[p].pc # "raised") =>
      LET st == ops[p].stats
          auto == IF ConfiguredRules = <<>> THEN 0 ELSE Largest(ConfiguredRules)
      IN /\ st.auto_threshold = auto
         /\ ops[p].arg = None => (st.mode = "auto" /\ st.threshold_days = auto)
         /\ ops[p].arg # None => (st.mode = "manual" /\ st.threshold_days = ops[p].arg[1])
C8_Witness ==
  \E p \in Procs :
    /\ ops[p].kind = "scan" /\ ops[p].pc = "done"
    /\ ops[p].stats.mode = "manual" /\ ops[p].stats.threshold_days = 60
    /\ ops[p].stats.auto_threshold = 0 /\ settings.reminder_rules = JsonList(<<>>)

InAutoWindow(s) ==
  /\ settings.reminder_rules.json # "malformed"
  /\ s \in DOMAIN subscriptions /\ subscriptions[s].expires_at.iso
  /\ -1 <= subscriptions[s].expires_at.day - Today
  /\ subscriptions[s].expires_at.day - Today <=
       (IF ConfiguredRules = <<>> THEN 0 ELSE Largest(ConfiguredRules))
Days == 0..DateOf(MaxNow)

\* C9: a reminder whose send failed is retried: the failure leaves s without
\* a record, the next scan pass that reaches s inside its window calls the
\* transport again, and while scans keep firing on that date and the transport
\* eventually accepts, s gets its Daily Send Record for the date (unless the
\* date ends or s leaves the automatic window first).
C9_FailedSendIsRetried ==
  /\ [][\A p \in Procs :
          (ops[p].kind = "scan" /\ SendRaised(p)) =>
             (~RecordFor(Cur(ops[p]).id, ops[p].today) =>
                ~RecordIn(reminder_daily_sends', Cur(ops[p]).id, ops[p].today))]_vars
  /\ [][\A p \in Procs :
          (/\ AtCandidate(ops[p]) /\ ops'[p] # ops[p]
           /\ Cur(ops[p]).id \in failed /\ InRange(ops[p])
           /\ ~RecordFor(Cur(ops[p]).id, ops[p].today))
          => ops'[p].pc = "await"]_vars
  /\ \A s \in SubIds : \A d \in Days :
       (s \in failed /\ Today = d /\ InAutoWindow(s))
         ~> (RecordFor(s, d) \/ Today # d \/ ~InAutoWindow(s))
C9_Witness ==
  \E p \in Procs :
    /\ ops[p].kind = "scan" /\ ops[p].pc = "await"
    /\ Cur(ops[p]).id \in failed

\* C10: an exception while rendering or sending for one subscription is
\* counted in 'errors' and the pass goes on with the next candidate: every
\* candidate is processed and the scan ends by returning its stats.
C10_ErrorNeverAborts ==
  /\ [][\A p \in Procs :
          (ops[p].kind = "scan" /\ SendRaised(p)) =>
             /\ ops'[p].kind = "scan" /\ ops'[p].pc = "loop"
             /\ ops'[p].stats = [ops[p].stats EXCEPT !.errors = @ + 1]
             /\ ops'[p].subs = ops[p].subs
             /\ ops'[p].i = ops[p].i + 1]_vars
  /\ [](\A p \in Procs :
          (ops[p].kind = "scan" /\ ops[p].pc = "done") =>
             ops[p].stats.checked_subscriptions = Len(ops[p].subs))
  /\ \A p \in Procs :
       (ops[p].kind = "scan" /\ ops[p].pc \in {"loop", "await"})
         ~> (ops[p].kind = "scan" /\ ops[p].pc = "done")
C10_Witness ==
  \E p \in Procs :
    /\ ops[p].kind = "scan" /\ ops[p].pc = "done"
    /\ Len(ops[p].subs) = 2 /\ ops[p].subs[1].id \in failed
    /\ ops[p].stats.errors = 1 /\ ops[p].stats.sent = 1

BlankEmail(s) ==
  s \in DOMAIN subscriptions /\ strip(customers[subscriptions[s].customer_id].email) = ""
EmailEmpty == [ok |-> FALSE, reason |-> "customer_email_empty"]
NotFound == [ok |-> FALSE, reason |-> "subscription_not_found"]
\* the step in which task p is called as send_subscription_now / send_renewal_confirm
SendNowCalled(p) == ops[p].kind = "idle" /\ ops'[p].kind = "send_now"
ConfirmCalled(p) ==
  ops[p].kind = "idle" /\ ops'[p].kind = "renewal" /\ ops'[p].pc # "raised"

\* C11: a subscription whose customer email is blank is never handed to the
\* transport and never gets a Daily Send Record; a scan that reaches it as an
\* unrecorded candidate counts it in 'errors' and moves on, and
\* send_subscription_now and send_renewal_confirm return ok=false with
\* reason 'customer_email_empty' for it.
C11_BlankEmailNeverSent ==
  /\ [](\A p \in Procs : Awaiting(ops[p]) => ~BlankEmail(SubOf(ops[p])))
  /\ [](\A r \in reminder_daily_sends : ~BlankEmail(r.subscription_id))
  /\ [][\A p \in Procs :
          (/\ AtCandidate(ops[p]) /\ ops'[p] # ops[p] /\ InRange(ops[p])
           /\ BlankEmail(Cur(ops[p]).id)
           /\ ~RecordFor(Cur(ops[p]).id, ops[p].today))
          => /\ ops'[p].pc = "loop" /\ ops'[p].i = ops[p].i + 1
             /\ ops'[p].stats.errors = ops[p].stats.errors + 1
             /\ ops'[p].stats.sent = ops[p].stats.sent]_vars
  /\ [][\A p \in Procs :
          (SendNowCalled(p) /\ BlankEmail(ops'[p].sub_id))
          => (ops'[p].pc = "done" /\ ops'[p].result = EmailEmpty)]_vars
  /\ [][\A p \in Procs :
          (ConfirmCalled(p) /\ BlankEmail(ops'[p].sub_id))
          => (ops'[p].pc = "done" /\ ops'[p].result = EmailEmpty)]_vars

\* C12: when send_renewal_confirm succeeds for s on date D the Daily Send
\* Record (s, D) exists, and every scan later on D skips s as already sent
\* without calling the transport, also when the renewed expiry is inside the
\* scan's window.
C12_RenewalSuppressesReminder ==
  /\ [][\A p \in Procs :
          (ops[p].kind = "renewal" /\ SendReturned(p)) =>
             /\ ops'[p].result.ok
             /\ RecordIn(reminder_daily_sends', ops[p].sub_id, ops[p].today)]_vars
  /\ [](\A s \in renewed : RecordFor(s, Today))
  /\ [](\A p \in Procs :
          (ops[p].kind = "scan" /\ Awaiting(ops[p])) => Cur(ops[p]).id \notin renewed)
  /\ [][\A p \in Procs :
          (/\ AtCandidate(ops[p]) /\ ops'[p] # ops[p] /\ InRange(ops[p])
           /\ Cur(ops[p]).id \in renewed)
          => /\ ops'[p].pc = "loop" /\ ops'[p].i = ops[p].i + 1
             /\ ops'[p].stats.skipped_already_sent_today =
                  ops[p].stats.skipped_already_sent_today + 1
             /\ ops'[p].stats.sent = ops[p].stats.sent]_vars
C12_Witness ==
  \E p \in Procs :
    /\ ops[p].kind = "scan" /\ ops[p].pc = "loop" /\ ops[p].i > 1
    /\ LET o == [ops[p] EXCEPT !.i = @ - 1] IN
       /\ Cur(o).id \in renewed /\ InRange(o)
       /\ reminders[Cur(o).id] = 0
       /\ o.stats.skipped_already_sent_today >= 1

\* C13: send_subscription_now is not gated by the window: called for an
\* existing subscription with a non-blank customer email and no record for
\* today it calls the transport, whatever the stored expiry is, and when the
\* transport returns the Daily Send Record for today is there.
C13_SendNowBypassesWindow ==
  /\ [][\A p \in Procs :
          (/\ SendNowCalled(p)
           /\ ops'[p].sub_id \in DOMAIN subscriptions
           /\ ~BlankEmail(ops'[p].sub_id)
           /\ ~RecordFor(ops'[p].sub_id, Today))
          => ops'[p].pc = "await"]_vars
  /\ [][\A p \in Procs :
          (ops[p].kind = "send_now" /\ SendReturned(p)) =>
             /\ ops'[p].result.ok
             /\ RecordIn(reminder_daily_sends', ops[p].sub_id, ops[p].today)]_vars

SentBefore(s, d) ==
  \E r \in reminder_daily_sends : r.subscription_id = s /\ r.sent_date < d

\* C14: the daily guard is per calendar date: a scan that reaches a
\* subscription inside its window which has records of earlier dates but none
\* for the scan's date calls the transport for it, and when the transport
\* returns the record of the new date is added next to the earlier ones.
C14_GuardIsPerDate ==
  /\ [][\A p \in Procs :
          (/\ AtCandidate(ops[p]) /\ ops'[p] # ops[p] /\ InRange(ops[p])
           /\ ~BlankEmail(Cur(ops[p]).id)
           /\ SentBefore(Cur(ops[p]).id, ops[p].today)
           /\ ~RecordFor(Cur(ops[p]).id, ops[p].today))
          => ops'[p].pc = "await"]_vars
  /\ [][\A p \in Procs :
          (ops[p].kind = "scan" /\ SendReturned(p)) =>
             /\ RecordIn(reminder_daily_sends', Cur(ops[p]).id, ops[p].today)
             /\ reminder_daily_sends \subseteq reminder_daily_sends']_vars
C14_Witness ==
  \E p \in Procs :
    /\ ops[p].kind = "scan" /\ ops[p].pc = "loop" /\ ops[p].i > 1
    /\ ops[p].today = 1 /\ ops[p].stats.sent >= 1
    /\ LET s == ops[p].subs[ops[p].i - 1].id IN
       /\ RecordFor(s, 0) /\ RecordFor(s, 1)
       /\ reminders[s] = 1 /\ s \notin renewed

\* C15: send_subscription_now and send_renewal_confirm raise only out of the
\* transport call; every other failure is a returned result: an absent id
\* gives 'subscription_not_found', a blank email 'customer_email_empty', and
\* no stored data makes them raise.
C15_OnlyTransportRaises ==
  /\ [][\A p \in Procs :
          (ops'[p] # ops[p] /\ ops'[p].kind = "send_now" /\ ops'[p].pc = "raised")
          => Awaiting(ops[p])]_vars
  /\ [][\A p \in Procs :
          (SendNowCalled(p) /\ ops'[p].sub_id \notin DOMAIN subscriptions)
          => (ops'[p].pc = "done" /\ ops'[p].result = NotFound)]_vars
  /\ [][\A p \in Procs :
          (SendNowCalled(p) /\ BlankEmail(ops'[p].sub_id))
          => (ops'[p].pc = "done" /\ ops'[p].result = EmailEmpty)]_vars
  /\ [][\A p \in Procs :
          ConfirmCalled(p) =>
             IF BlankEmail(ops'[p].sub_id)
             THEN ops'[p].pc = "done" /\ ops'[p].result = EmailEmpty
             ELSE ops'[p].pc = "await"]_vars

\* the step in which task p calls delete_product / runs its DELETE statement
DeleteProductCalled(p) == ops[p].kind = "idle" /\ ops'[p].kind = "delete_product"
DeleteProductDeletes(p) ==
  ops[p].kind = "delete_product" /\ ops[p].pc = "counted" /\ ops'[p] # ops[p]
ReturnedBool(o, b) == o.pc = "done" /\ o.result = b

\* C16: delete_product(k) called while a subscription references k returns
\* false and changes no table; when no subscription references k, its DELETE
\* removes the product row, leaves the subscriptions alone and returns true.
C16_DeleteProductRestricted ==
  /\ [][\A p \in Procs :
          (DeleteProductCalled(p)
             /\ count_subscriptions_for_product(ops'[p].arg) > 0)
          => /\ ReturnedBool(ops'[p], FALSE)
             /\ products' = products /\ subscriptions' = subscriptions
             /\ reminder_daily_sends' = reminder_daily_sends
             /\ reminder_sends' = reminder_sends]_vars
  /\ [][\A p \in Procs :
          (DeleteProductDeletes(p)
             /\ count_subscriptions_for_product(ops[p].arg) = 0)
          => /\ ReturnedBool(ops'[p], TRUE)
             /\ products' = Without(products, {ops[p].arg})
             /\ subscriptions' = subscriptions]_vars
  /\ [][\A p \in Procs :
          (ops'[p] # ops[p] /\ ops'[p].kind = "delete_product"
             /\ ReturnedBool(ops'[p], TRUE))
          => count_subscriptions_for_product(ops'[p].arg) = 0]_vars
\* product 1, the only product there ever was, is deleted after the
\* subscriptions that referenced it
C16_Witness ==
  \E p \in Procs :
    /\ ops[p].kind = "delete_product" /\ ReturnedBool(ops[p], TRUE) /\ ops[p].arg = 1
    /\ products = <<>> /\ sqlite_sequence.products = 1
    /\ sqlite_sequence.subscriptions >= 1 /\ subscriptions = <<>>

\* C17: in every reachable store, whatever operations and migration ran,
\* each subscription row references a customer row and a product row that
\* both exist.
C17_SubscriptionsReferenceRows ==
  \A s \in DOMAIN subscriptions :
    /\ subscriptions[s].customer_id \in DOMAIN customers
    /\ subscriptions[s].product_id \in DOMAIN products
\* a migration that stopped at a legacy row of an absent customer, after
\* carrying the rows before it over
C17_Witness ==
  \E p \in Procs :
    /\ ops[p].kind = "init" /\ ops[p].pc = "raised"
    /\ subscriptions # <<>> /\ schema = "v4"

\* C18: when a subscription for product k is inserted between
\* delete_product(k)'s reference count and its DELETE, delete_product still
\* returns false, does not raise, and the product row stays.
C18_DeleteProductAtomic ==
  [][\A p \in Procs :
       (DeleteProductDeletes(p) /\ count_subscriptions_for_product(ops[p].arg) > 0)
       => (ReturnedBool(ops'[p], FALSE) /\ products' = products)]_vars

DeleteCustomerCalled(p) == ops[p].kind = "idle" /\ ops'[p].kind = "delete_customer"
OwnedBy(c) == {s \in DOMAIN subscriptions : subscriptions[s].customer_id = c}
SameRows(f, g, keep) ==
  /\ DOMAIN g = DOMAIN f \cap keep
  /\ \A k \in DOMAIN g : g[k] = f[k]

\* C19: delete_customer(c) removes c, every subscription c owns and every
\* daily and per-threshold record of those subscriptions; every other
\* customer, subscription and record, and every product, stays as it was.
C19_DeleteCustomerCascades ==
  [][\A p \in Procs :
       DeleteCustomerCalled(p) =>
         LET c == ops'[p].arg
             gone == OwnedBy(c)
         IN /\ SameRows(customers, customers', DOMAIN customers \ {c})
            /\ SameRows(subscriptions, subscriptions', DOMAIN subscriptions \ gone)
            /\ reminder_daily_sends' =
                 {r \in reminder_daily_sends : r.subscription_id \notin gone}
            /\ reminder_sends' = {r \in reminder_sends : r.subscription_id \notin gone}
            /\ products' = products]_vars
\* customer 1 of the migrated file is gone with what it owned; customer 2's
\* subscription and its record of today are still there
C19_Witness ==
  \E p \in Procs :
    /\ ops[p].kind = "delete_customer" /\ ops[p].arg = 1
    /\ DOMAIN customers = {2} /\ DOMAIN subscriptions = {2}
    /\ subscriptions[2].customer_id = 2
    /\ RecordFor(2, 0)
    /\ Cardinality(legacy_products.rows) = 1 /\ reminder_sends = {}

Normalised(e) == lower(strip(e))
HeldBy(e) == {c \in DOMAIN customers : Normalised(customers[c].email) = Normalised(e)}
UpsertCustomerCalled(p) == ops[p].kind = "idle" /\ ops'[p].kind = "upsert_customer"
UpdateCustomerCalled(p) == ops[p].kind = "idle" /\ ops'[p].kind = "update_customer"

C21_EmptyEmailRejected ==
  [][\A p \in Procs :
       UpsertCustomerCalled(p) =>
         IF Normalised(ops'[p].arg) = ""
         THEN ops'[p].pc = "raised" /\ customers' = customers
         ELSE ops'[p].pc = "done"]_vars

UpsertProductCalled(p) == ops[p].kind = "idle" /\ ops'[p].kind = "upsert_product"
NamedLike(name) == {k \in DOMAIN products : products[k].name = strip(name)}

\* C22: add_product / upsert_product on a name that exists after trimming
\* returns the existing product's id, adds no row, and replaces the stored
\* content only when the new content is non-empty: content None or '' leaves
\* the existing description as it was.
C22_UpsertKeepsDescription ==
  [][\A p \in Procs :
       (UpsertProductCalled(p) /\ NamedLike(ops'[p].arg[1]) # {})
       => LET k == ops'[p].result
              content == ops'[p].arg[2]
          IN /\ k \in NamedLike(ops'[p].arg[1])
             /\ DOMAIN products' = DOMAIN products
             /\ \A j \in DOMAIN products \ {k} : products'[j] = products[j]
             /\ products'[k].name = products[k].name
             /\ products'[k].content =
                  IF content \in {NULL, ""} THEN products[k].content ELSE content]_vars

AddSubscriptionCalled(p) == ops[p].kind = "idle" /\ ops'[p].kind = "add_subscription"

\* C23: add_subscription naming a customer id or a product id that does
\* not exist raises (the foreign keys reject the INSERT) and leaves the
\* subscriptions table as it was.
C23_AddSubscriptionNeedsParents ==
  [][\A p \in Procs :
       (AddSubscriptionCalled(p)
          /\ (ops'[p].arg[1] \notin DOMAIN customers \/ ops'[p].arg[2] \notin DOMAIN products))
       => (ops'[p].pc = "raised" /\ subscriptions' = subscriptions)]_vars
\* customer 1 exists, product 2 does not: the call raised and the one
\* subscription of the table is still the only one
C23_Witness ==
  \E p \in Procs :
    /\ ops[p].kind = "add_subscription" /\ ops[p].pc = "raised"
    /\ ops[p].arg = <<1, 2>>
    /\ 1 \in DOMAIN customers /\ 2 \notin DOMAIN products
    /\ DOMAIN subscriptions = {1} /\ sqlite_sequence.subscriptions = 1

\* C24: whichever path wrote it (init, the chat SET_RULES reply, the web
\* settings form), the stored reminder_rules is a list of non-negative
\* integers in strictly descending order.
C24_RulesWellFormed ==
  LET r == settings.reminder_rules IN
  r # Absent =>
    /\ r.json = "list"
    /\ \A k \in DOMAIN r.items : r.items[k] >= 0
    /\ \A j, k \in DOMAIN r.items : j < k => r.items[j] > r.items[k]

InitCalled(p) == ops[p].kind = "idle" /\ ops'[p].kind = "init"
InitReturned(p) == InitCalled(p) /\ ops'[p].pc = "done"
SettingKeys == {"reminder_rules", "email_template", "renewal_confirm_template"}

\* C25: init writes each of the three settings keys, with its default, only
\* where the key is absent; a key that holds a value, such as one changed
\* by set_setting since the last init, keeps it.
C25_InitKeepsSettings ==
  [][\A p \in Procs : \A key \in SettingKeys :
       /\ (InitCalled(p) /\ settings[key] # Absent) => settings'[key] = settings[key]
       /\ (InitReturned(p) /\ settings[key] = Absent) => settings'[key] = DefaultSettings[key]]_vars
\* init has just returned on a store whose rules were set from the chat and
\* whose renewal template was set from the web form
C25_Witness ==
  \E p \in Procs :
    /\ ops[p].kind = "init" /\ ops[p].pc = "done"
    /\ settings.reminder_rules = JsonList(<<30, 7>>)
    /\ settings.email_template = DEFAULT_TEMPLATE
    /\ settings.renewal_confirm_template = CustomTemplate

\* C26: init on a store that is already migrated (the subscriptions table
\* exists) migrates nothing: subscriptions, products, per-threshold records
\* and the backup table are after the second run what they were after the
\* first.
C26_MigrationIdempotent ==
  [][\A p \in Procs :
       (InitCalled(p) /\ schema = "v4")
       => /\ subscriptions' = subscriptions /\ products' = products
          /\ reminder_sends' = reminder_sends /\ reminder_daily_sends' = reminder_daily_sends
          /\ legacy_products' = legacy_products /\ sqlite_sequence' = sqlite_sequence
          /\ ops'[p].pc = "done"]_vars
\* a later init has returned on a migrated legacy file: its backup table,
\* both migrated subscriptions and both replayed records are in place, and
\* the rules are ones only the chat of the migrated store can have written
C26_Witness ==
  \E p \in Procs :
    /\ ops[p].kind = "init" /\ ops[p].pc = "done"
    /\ legacy_products.exists /\ DOMAIN subscriptions = {1, 2}
    /\ Cardinality(reminder_sends) = 2
    /\ settings.reminder_rules = JsonList(<<5, -1>>)

\* the step in which init migrates a legacy file and returns
Migrated(p) == InitReturned(p) /\ MigrationApplies
\* the subscription made for a legacy row: rows are taken by ascending id
\* and the subscriptions table starts empty
SubOfLegacy(rows, id) == Cardinality({q \in rows : q.id <= id})

\* C27: a migration that completes makes exactly one subscription per row
\* of the legacy table it reads, in ascending legacy id, with the row's
\* customer id and expiry, the legacy content as the note, and a product
\* named by the trimmed legacy name with null content; rows of one name
\* share a product.
C27_MigrationRowByRow ==
  [][\A p \in Procs :
       Migrated(p) =>
         LET rows == legacy_products'.rows IN
         /\ DOMAIN subscriptions' = 1..Cardinality(rows)
         /\ \A r \in rows :
              LET s == subscriptions'[SubOfLegacy(rows, r.id)] IN
              /\ s.customer_id = r.customer_id
              /\ s.expires_at = r.expires_at
              /\ s.note = r.content
              /\ s.product_id \in DOMAIN products'
              /\ products'[s.product_id] = [name |-> strip(r.name), content |-> NULL]
         /\ \A j, k \in DOMAIN products' :
              products'[j].name = products'[k].name => j = k
         /\ {products'[k].name : k \in DOMAIN products'} = {strip(r.name) : r \in rows}]_vars
\* legacy rows 1 (' basic ', d1) and 3 ('basic', d2) became subscriptions 1
\* and 2 of the one product 'basic'
C27_Witness ==
  \E p \in Procs :
    /\ ops[p].kind = "init" /\ ops[p].pc = "done"
    /\ Cardinality(legacy_products.rows) = 2
    /\ DOMAIN subscriptions = {1, 2} /\ DOMAIN products = {1}
    /\ subscriptions[1].note = "d1" /\ subscriptions[2].note = "d2"
    /\ products[1] = [name |-> "basic", content |-> NULL]

\* the step in which init fails during the migration
MigrationFailed(p) == InitCalled(p) /\ ops'[p].pc = "raised"

\* C28: a migration that fails leaves the store as it was: the legacy
\* products table is still the one to migrate, nothing was migrated into a
\* new schema, and the next startup migrates again.
C28_MigrationAllOrNothing ==
  [][\A p \in Procs :
       MigrationFailed(p) =>
         /\ subscriptions' = <<>>
         /\ products' = <<>>
         /\ schema' = "v3"
         /\ v3_products' = v3_products]_vars

\* C29: a migration that starts with a legacy products table and a backup
\* left by an earlier run replaces the backup by the current legacy table
\* and migrates the rows of the current legacy table.
C29_StaleBackupReplaced ==
  [][\A p \in Procs :
       (InitCalled(p) /\ MigrationApplies /\ legacy_products.exists) =>
         /\ legacy_products' = v3_products
         /\ InitReturned(p) =>
              Cardinality(DOMAIN subscriptions') = Cardinality(v3_products.rows)]_vars

\* the legacy send records whose product id is the id of a migrated row
MappedSends(rows, sends) == {rr \in sends : \E r \in rows : r.id = rr.product_id}

\* C30: a migration that completes replays every legacy send record whose
\* legacy product id was migrated, under the subscription made for that
\* id and with the same threshold and sent_at, and nothing else: records
\* of an unmapped product id are dropped without a failure, and no two
\* records share (subscription, threshold).
C30_SendRecordsReplayed ==
  [][\A p \in Procs :
       (InitCalled(p) /\ MigrationApplies /\ legacy_reminder_sends.exists) =>
         LET rows == legacy_products'.rows
             sends == legacy_reminder_sends.rows IN
         /\ InitReturned(p) =>
              /\ reminder_sends' =
                   {[subscription_id |-> SubOfLegacy(rows, rr.product_id),
                     days_before |-> rr.days_before,
                     sent_at |-> rr.sent_at] : rr \in MappedSends(rows, sends)}
              /\ \A a, b \in reminder_sends' :
                   (a.subscription_id = b.subscription_id /\ a.days_before = b.days_before)
                     => a = b
              /\ \A a \in reminder_sends' : a.subscription_id \in DOMAIN subscriptions'
         \* an unmapped record alone never makes init fail
         /\ (\A r \in rows : r.customer_id \in DOMAIN customers) => InitReturned(p)]_vars
\* legacy records of products 1 and 3 are replayed under subscriptions 1
\* and 2, the record of the unknown product 2 is gone
C30_Witness ==
  \E p \in Procs :
    /\ ops[p].kind = "init" /\ ops[p].pc = "done"
    /\ legacy_reminder_sends.exists
    /\ \E rr \in legacy_reminder_sends.rows : \A r \in legacy_products.rows : r.id # rr.product_id
    /\ {r.id : r \in legacy_products.rows} = {1, 3}
    /\ reminder_sends = {[subscription_id |-> 1, days_before |-> 7, sent_at |-> 0],
                         [subscription_id |-> 2, days_before |-> 7, sent_at |-> 1]}

Picked(p) == ops[p].kind = "_pick_rule_for_display"

\* C31: for a rule list R and remaining days d, with d' = max(d, 0), the
\* resolver returns d' when R is empty, else the smallest r in R with
\* r >= d', else (no such r) the largest element of R; with R = [30, 7, 1, 0]
\* it returns 30, 7, 1, 0, 0, 30 for d = 20, 5, 1, 0, -3, 45.
C31_ResolverPicksNextThreshold ==
  \A p \in Procs :
    Picked(p) =>
      LET R == Range(ops[p].arg[1])
          d == ops[p].arg[2]
          dd == IF d > 0 THEN d ELSE 0
          res == ops[p].result
      IN /\ R = {} => res = dd
         /\ (\E r \in R : r >= dd) =>
              res \in R /\ res >= dd /\ \A r \in R : r >= dd => res <= r
         /\ (R # {} /\ \A r \in R : r < dd) =>
              res \in R /\ \A r \in R : r <= res
         /\ ops[p].arg[1] = <<30, 7, 1, 0>> =>
              /\ d = 20 => res = 30
              /\ d = 5 => res = 7
              /\ d = 1 => res = 1
              /\ d = 0 => res = 0
              /\ d = -3 => res = 0
              /\ d = 45 => res = 30
\* both tasks hold a result: 7 for five days left under the default rules,
\* and 30, the largest rule, for 45 days left
C31_Witness ==
  /\ Picked(1) /\ ops[1].arg = <<<<30, 7, 1, 0>>, 5>> /\ ops[1].result = 7
  /\ Picked(2) /\ ops[2].arg = <<<<30, 7, 1, 0>>, 45>> /\ ops[2].result = 30

\* the name, trimmed, is the name of a product other than k
HeldByOther(k, name) == \E j \in DOMAIN products : j # k /\ products[j].name = strip(name)

\* C32: after any sequence of add_product, upsert_product and update_product
\* calls no two product rows have the same name, and update_product to a
\* name held by another product returns false and changes no product.
C32_ProductNameUnique ==
  /\ [](\A j, k \in DOMAIN products : products[j].name = products[k].name => j = k)
  /\ [][\A p \in Procs, k \in RowIds, n \in ProductNames, c \in Contents :
          (update_product(p, k, n, c) /\ k \in DOMAIN products /\ HeldByOther(k, n))
          => (ReturnedBool(ops'[p], FALSE) /\ products' = products)]_vars
\* products 'basic' and 'pro' both exist and an update_product has just
\* been refused
C32_Witness ==
  \E p \in Procs :
    /\ ops[p].kind = "update_product" /\ ReturnedBool(ops[p], FALSE)
    /\ {products[k].name : k \in DOMAIN products} = {"basic", "pro"}

\* C33: when two scan passes overlap, no subscription is sent two reminders
\* on one calendar date: a scan's transport call never succeeds for a
\* subscription the transport has already accepted a mail for that date.
C33_OverlappingScansSendOnce ==
  [][\A p \in Procs :
       (SendReturned(p) /\ ops[p].kind = "scan")
       => <<Cur(ops[p]).id, Today>> \notin acked]_vars

\* C34: a crash after the transport confirmed a scan's send and before
\* mark_sent_on ran leaves no Daily Send Record for (s, today); the next
\* scan that reaches s on that date with s in its window calls the
\* transport for s again; and each crash costs one duplicate: a scan's
\* transport call succeeds for an s already served that date only when a
\* crash lost that record, and it then writes the record.
C34_CrashCostsOneDuplicate ==
  /\ [](\A s \in crashed : <<s, Today>> \in acked /\ ~RecordFor(s, Today))
  /\ [][\A p \in Procs :
          /\ ScanCrash(p) =>
               /\ reminder_daily_sends' = reminder_daily_sends
               /\ ~RecordIn(reminder_daily_sends', Cur(ops[p]).id, ops[p].today)
          /\ (AtCandidate(ops[p]) /\ ScanLoop(p) /\ Cur(ops[p]).id \in crashed
                /\ InRange(ops[p]) /\ ops[p].today = Today)
               => ops'[p].pc = "await"
          /\ (ops[p].kind = "scan" /\ ops'[p].kind = "scan" /\ SendReturned(p)
                /\ <<Cur(ops[p]).id, Today>> \in acked)
               => /\ Cur(ops[p]).id \in crashed
                  /\ Cur(ops[p]).id \notin crashed'
                  /\ RecordIn(reminder_daily_sends', Cur(ops[p]).id, Today)]_vars
\* subscription 1 got its reminder twice today: once before a crash, once
\* from the scan after it, which wrote the one record and counted it
C34_Witness ==
  \E p \in Procs :
    /\ ops[p].kind = "scan" /\ ops[p].pc \in {"loop", "done"} /\ ops[p].stats.sent >= 1
    /\ reminders[1] = 2 /\ 1 \notin crashed
    /\ Cardinality(RowsFor(1, Today)) = 1

\* a scan pass that is in its loop, waiting on the transport, or has returned
InScan(o) == o.kind = "scan" /\ o.pc \in {"loop", "await", "done"}
Pending(o) == IF o.pc = "await" THEN 1 ELSE 0

\* C35: the counters of a scan_and_send satisfy, all along the pass and in
\* the stats it returns: checked_subscriptions is the number of candidates
\* read (all of them at the return), eligible = skipped_already_sent_today
\* + sent + errors (plus the candidate whose send is under way),
\* eligible <= checked_subscriptions, and 'sent' grows by one exactly in the
\* steps in which the pass inserts a Daily Send Record, for its current
\* candidate and its date.
C35_StatsAddUp ==
  /\ [](\A p \in Procs :
          InScan(ops[p]) =>
            LET st == ops[p].stats IN
            /\ st.checked_subscriptions = ops[p].i - 1 + Pending(ops[p])
            /\ ops[p].pc = "done" => st.checked_subscriptions = Len(ops[p].subs)
            /\ st.eligible = st.skipped_already_sent_today + st.sent + st.errors + Pending(ops[p])
            /\ st.eligible <= st.checked_subscriptions)
  /\ [][\A p \in Procs :
          (InScan(ops[p]) /\ ops'[p].kind = "scan") =>
            LET inserted == reminder_daily_sends' \ reminder_daily_sends IN
            /\ reminder_daily_sends \subseteq reminder_daily_sends'
            /\ Cardinality(inserted) = ops'[p].stats.sent - ops[p].stats.sent
            /\ \A r \in inserted :
                 r.subscription_id = Cur(ops[p]).id /\ r.sent_date = ops[p].today]_vars
\* a pass over two candidates has returned: one was sent and recorded, the
\* other had its record already
C35_Witness ==
  \E p \in Procs :
    /\ ops[p].kind = "scan" /\ ops[p].pc = "done"
    /\ ops[p].stats.checked_subscriptions = 2 /\ ops[p].stats.eligible = 2
    /\ ops[p].stats.sent = 1 /\ ops[p].stats.skipped_already_sent_today = 1
    /\ Cardinality({r \in reminder_daily_sends : r.sent_date = ops[p].today}) = 2

\* a step of scan_and_send, send_subscription_now or send_renewal_confirm:
\* the call of one of the first two, or any later step of the three (the
\* step that calls send_renewal_confirm is the renewal handler's, which
\* writes the new expiry first)
EngineStep(p) ==
  \/ ops[p].kind = "idle" /\ ops'[p].kind \in {"scan", "send_now"}
  \/ ops[p].kind \in {"scan", "send_now", "renewal"} /\ ops'[p] # ops[p]

\* C36: scan_and_send, send_subscription_now and send_renewal_confirm write
\* nothing to the store but new Daily Send Records: customers, products,
\* subscriptions (expiry and note included), settings and the per-threshold
\* table are unchanged by every step of theirs, and no record is removed.
C36_EngineWritesOnlyDailyRecords ==
  [][\A p \in Procs :
       EngineStep(p) =>
         /\ customers' = customers
         /\ products' = products
         /\ subscriptions' = subscriptions
         /\ settings' = settings
         /\ reminder_sends' = reminder_sends
         /\ reminder_daily_sends \subseteq reminder_daily_sends']_vars
\* a renewal confirmation has been sent and recorded after a scan had sent
\* and recorded a reminder to the other subscription; the renewed expiry is
\* the one the handler wrote
C36_Witness ==
  \E p \in Procs :
    /\ ops[p].kind = "renewal" /\ ops[p].pc = "done" /\ ops[p].result.ok
    /\ subscriptions[ops[p].sub_id].expires_at = ops[p].new_expires_at
    /\ RecordFor(ops[p].sub_id, Today)
    /\ \E s \in SubIds \ {ops[p].sub_id} : RecordFor(s, Today) /\ reminders[s] = 1
    /\ reminder_sends = {}

\* the step in which a renewal handler (chat or web) writes the new expiry
\* and calls send_renewal_confirm
RenewCalled(p) == ops[p].kind = "idle" /\ ops'[p].kind = "renewal" /\ ops'[p].pc # "raised"
RenewDays == ChatRenewDays \cup WebRenewDays

\* C37: both renewal entry points write the same new expiry for the same
\* old expiry, today and N: base + N days, where base is the old expiry
\* when today <= old expiry and today otherwise; the expiry is written
\* before the confirmation is sent and stays written when the confirmation
\* fails.
C37_RenewalFromLaterOfTodayAndExpiry ==
  [][\A p \in Procs :
       /\ RenewCalled(p) =>
            LET o == ops'[p]
                old == o.old_expires_at.day
                base == IF o.today <= old THEN old ELSE o.today
            IN /\ \E n \in RenewDays : o.new_expires_at = IsoDate(base + n)
               /\ subscriptions'[o.sub_id].expires_at = o.new_expires_at
       /\ (ops[p].kind = "renewal" /\ ops[p].pc = "await") =>
            subscriptions' = subscriptions]_vars

(* C38: in the chat text router a text starts scan_and_send exactly when   *)
(* the conversation state is SCAN_CUSTOM_DAYS and the text is an integer in *)
(* 1..3650; the scan then runs in manual mode with that integer as its      *)
(* threshold and the conversation state is cleared. A text in any other     *)
(* state, or a text that is no such integer, starts no scan.                *)
C38_TextStartsScanOnlyInCustomDays ==
  [][\A p \in Procs, text \in ChatTexts :
       on_text(p, text) =>
         IF _get_state = STATE_SCAN_CUSTOM_DAYS /\ ValidDays(text)
         THEN /\ ops'[p].kind = "scan" /\ ops'[p].pc = "loop"
              /\ ops'[p].stats.mode = "manual"
              /\ ops'[p].stats.threshold_days = IntOf(text)
              /\ user_data' = _clear_state
         ELSE ops'[p].kind # "scan"]_vars

====
